---- MODULE Spec2Model ----
(***************************************************************************)
(* Verification model of the prediction-market backend:                    *)
(*   - BatchInserter (backend/supabaseClient.js) and the aggregator's      *)
(*     shutdown (backend/aggregator.js)                                    *)
(*   - the two exchange sessions of the aggregator                         *)
(*   - the scenario engine's graph traversal and report persistence        *)
(*     (scenario_engine.js) and the scenario edge function                 *)
(* Each component has its own specification over the shared variables; a   *)
(* specification leaves the variables of the other components unchanged.   *)
(***************************************************************************)
EXTENDS Integers, Sequences, FiniteSets, Bags, TLC

VARIABLES
  \* ---- BatchInserter ----
  queue,        \* this._queue: sequence of record ids
  inflight,     \* bag of batches handed to supabase.insert, promise pending
  persisted,    \* bag of records stored in market_signals
  enqueued,     \* bag of records handed to enqueue() so far
  nextId,       \* number of enqueue() calls so far, plus one
  timerOn,      \* this._timer is active
  bwPc,         \* "running" | "finalFlush" (shutdown awaits flush) | "exited"
  awaited,      \* the batch whose insert shutdown() is awaiting, or << >>
  \* ---- Scenario request (scenario_engine.js, scenario edge function) ----
  relationships,\* rows of market_relationships, in the order select('*') returns
  handler,      \* "backend" (POST /api/scenario) | "edge" (Deno.serve handler)
  body,         \* kind of request body: "valid" | "noquery" | "badjson"
  reqPc,        \* position of the request in its handler
  target,       \* target_market extracted by parseScenario
  initialDir,   \* direction extracted by parseScenario
  tq,           \* traverseGraph: the BFS queue
  visited,      \* traverseGraph: the visited set
  impacts,      \* traverseGraph: the impacts list
  expandLog,    \* market keys whose edges were scanned, in order (history)
  aiCalls,      \* analyst-model calls made by the request so far
  aiFailed,     \* an analyst-model call failed or was unparsable
  reports,      \* rows of scenario_reports
  response,     \* HTTP response sent: [code, kind], code 0 while pending
  \* ---- Exchange sessions (connectPolymarket, connectKalshi) ----
  conn,         \* per venue: "connecting" | "open" | "sleeping"
  attempt,      \* per venue: the loop's attempt counter
  heartbeat,    \* per venue: the heartbeat interval is set
  lastSleep,    \* per venue: jitter and delay of the latest reconnect sleep
  streak,       \* per venue: closes since the last open (history)
  cmdId,        \* connectKalshi: next command id
  sentIds,      \* connectKalshi: ids of the subscription frames sent
  \* ---- propagateDirection, applied on its own ----
  dirCall,      \* arguments, position and results of the application
  \* ---- Arbitrage scanner (arbitrage_hunter.js, both copies) ----
  hunter,       \* the copy that runs: "fallback" | "liveOnly"
  hRel,         \* rows of market_relationships the scanner reads
  hSignals,     \* latest market_signals row per event id, or NoSignal
  hPc,          \* "idle" | "scanning"
  hFetched,     \* runScan: pairs, metaMap and signalMap of this cycle
  hIdx,         \* runScan: index of the next pair of the for loop
  opportunities,\* runScan: the pairs flagged in this cycle
  alertRows,    \* rows of arbitrage_alerts
  cycleCount,   \* number of scan cycles started
  \* ---- Classifier (agent.js) ----
  catalog,      \* rows of market_metadata
  relTable,     \* rows of market_relationships the classifier writes
  agentPc,      \* "idle" | "running" | "done" | "fatal" (fetchMarkets threw)
  agentPairs,   \* runAgent: the pairs, in the order they were generated
  agentFinished,\* runAgent: indices of the tasks that have ended
  lastTask,     \* the task that ended last: its pair, response and result (history)
  thisRun,      \* pair keys the current run stored so far (history)
  prevRun,      \* pair keys the run before it stored and left, when that run
                \* came to its end (history)
  probe,        \* one catalog row, the quote table, and the probability each
                \* component resolves for the row
  pool,         \* pLimit: its queue, what each worker awaits, the tasks started
                \* (history) and settled
  pairCall,     \* classifyPair on a parsed response: its arguments, and the
                \* record it returned
  scan,         \* the rows of market_signals, newest first, and the latest
                \* probability per event id each component takes from them
  \* ---- Normalizers of the aggregator ----
  marketStateCache, \* marketStateCache: the entry of one asset and of one ticker
  lastQuote,        \* the record the latest frame handed to inserter.enqueue (history)
  lastFrame,        \* the message the handlers processed last (history)
  lastUpdate        \* per asset, what its latest book / ticker frame gave (history)

bwVars == <<queue, inflight, persisted, enqueued, nextId, timerOn, bwPc, awaited>>

scVars == <<relationships, handler, body, reqPc, target, initialDir, tq, visited,
            impacts, expandLog, aiCalls, aiFailed, reports, response>>

vars == <<queue, inflight, persisted, enqueued, nextId, timerOn, bwPc, awaited,
          relationships, handler, body, reqPc, target, initialDir, tq, visited,
          impacts, expandLog, aiCalls, aiFailed, reports, response,
          conn, attempt, heartbeat, lastSleep, streak, cmdId, sentIds, dirCall,
          hunter, hRel, hSignals, hPc, hFetched, hIdx, opportunities, alertRows,
          cycleCount,
          catalog, relTable, agentPc, agentPairs, agentFinished,
          lastTask, thisRun, prevRun, probe, pool, pairCall, scan, marketStateCache,
          lastQuote,
          lastFrame, lastUpdate>>

hVars == <<hunter, hRel, hSignals, hPc, hFetched, hIdx, opportunities, alertRows,
           cycleCount>>

cVars == <<catalog, relTable, agentPc, agentPairs, agentFinished,
           lastTask, thisRun, prevRun, probe, pool, pairCall, scan>>

----------------------------------------------------------------------------
\* Bounds and program constants

\* this.batchSize (DEFAULT_BATCH_SIZE is 25; kept small here)
batchSize == 1
\* retry-queue cap factor: this.batchSize * 10
RETRY_CAP_FACTOR == 10
\* number of distinct records the producers enqueue in one run
MaxRecords == 4
\* number of records enqueued in one run when records are not told apart
MaxLoad == 12
\* the record of the runs that do not tell records apart
ANON == "r"

----------------------------------------------------------------------------
\* Helpers

Range(s) == {s[i] : i \in DOMAIN s}

SeqToBag(s) == [x \in Range(s) |-> Cardinality({i \in DOMAIN s : s[i] = x})]

----------------------------------------------------------------------------
\* BatchInserter

BWInit ==
  /\ queue = << >>
  /\ inflight = EmptyBag
  /\ persisted = EmptyBag
  /\ enqueued = EmptyBag
  /\ nextId = 1
  /\ timerOn = TRUE
  /\ bwPc = "running"
  /\ awaited = << >>

\* flush(), synchronous part: return on an empty queue, else splice the whole
\* queue into one batch and start the insert.  Yields <<queue', inflight'>>.
flush(q, fl) ==
  IF Len(q) = 0 THEN <<q, fl>> ELSE << << >>, fl (+) SetToBag({q}) >>

\* enqueue that flushes only once the queue has grown beyond batchSize
enqueueAbove(q, fl, r) ==
  LET pushed == Append(q, r)
  IN IF Len(pushed) > batchSize THEN flush(pushed, fl) ELSE <<pushed, fl>>

\* enqueue(record): push, then flush when the queue reached batchSize.
enqueue(q, fl, r) ==
  LET pushed == Append(q, r)
  IN IF Len(pushed) >= batchSize THEN flush(pushed, fl) ELSE <<pushed, fl>>

\* flush(), continuation after the insert settled with `outcome`:
\*   "ok"    -> records are stored
\*   "error" -> requeue at the front unless the queue already holds 10*batchSize
\*   "throw" -> catch block: count and log only
requeue(q, batch) ==
  IF Len(q) < batchSize * RETRY_CAP_FACTOR THEN batch \o q ELSE q

Outcomes == {"ok", "error", "throw"}

EnqueueRecord(r) ==
  /\ bwPc # "exited"
  /\ LET res == enqueue(queue, inflight, r)
     IN /\ queue' = res[1]
        /\ inflight' = res[2]
  /\ enqueued' = enqueued (+) SetToBag({r})
  /\ nextId' = nextId + 1
  /\ UNCHANGED <<persisted, timerOn, bwPc, awaited>>

\* a producer enqueues a fresh record (records carry unique ids)
Enqueue ==
  /\ nextId <= MaxRecords
  /\ EnqueueRecord(nextId)

\* a producer enqueues a record whose content is not told apart
EnqueueAnon ==
  /\ nextId <= MaxLoad
  /\ EnqueueRecord(ANON)

\* setInterval(() => this.flush(), flushIntervalMs)
TimerFlush ==
  /\ bwPc # "exited"
  /\ timerOn
  /\ LET res == flush(queue, inflight)
     IN /\ queue' = res[1]
        /\ inflight' = res[2]
  /\ UNCHANGED <<persisted, enqueued, nextId, timerOn, bwPc, awaited>>

\* The insert of one in-flight batch settles.  When it is the batch shutdown()
\* awaits, the continuation of shutdown runs next: stop(), process.exit(0).
InsertSettles(batch, outcome) ==
  /\ bwPc # "exited"
  /\ BagIn(batch, inflight)
  /\ inflight' = inflight (-) SetToBag({batch})
  /\ persisted' = IF outcome = "ok" THEN persisted (+) SeqToBag(batch) ELSE persisted
  /\ queue' = IF outcome = "error" THEN requeue(queue, batch) ELSE queue
  /\ IF bwPc = "finalFlush" /\ batch = awaited
       THEN /\ bwPc' = "exited"
            /\ timerOn' = FALSE
            /\ awaited' = << >>
       ELSE UNCHANGED <<bwPc, timerOn, awaited>>
  /\ UNCHANGED <<enqueued, nextId>>

InsertDone == \E batch \in BagToSet(inflight), outcome \in Outcomes : InsertSettles(batch, outcome)

\* shutdown(signal): await inserter.flush(); inserter.stop(); process.exit(0)
shutdown ==
  /\ bwPc = "running"
  /\ IF Len(queue) = 0
       THEN /\ bwPc' = "exited"
            /\ timerOn' = FALSE
            /\ UNCHANGED <<queue, inflight, awaited>>
       ELSE /\ bwPc' = "finalFlush"
            /\ awaited' = queue
            /\ queue' = << >>
            /\ inflight' = inflight (+) SetToBag({queue})
            /\ UNCHANGED timerOn
  /\ UNCHANGED <<persisted, enqueued, nextId>>

----------------------------------------------------------------------------
\* Scenario engine: inputs

MAX_DEPTH == 2
\* MIN_PATH_CONF = 0.05, in units of 1/10000 (cumulative confidences carry
\* four decimals after toFixed(4))
MIN_PATH_CONF == 500
\* pathConfidence of the origin entry, 1.0 in units of 1/10000
ORIGIN_CONF == 10000
\* largest number of relationship rows in the table
MaxEdges == 3

Markets == {"m1", "m2", "m3", "m4"}
\* a target_market that is not in market_metadata
UNKNOWN == "unknown"
Directions == {"UP", "DOWN"}

\* the unordered pairs of markets in canonical (market_key_a < market_key_b)
\* order, as the UNIQUE (market_key_a, market_key_b) constraint keeps them
PairSeq == << <<"m1", "m2">>, <<"m1", "m3">>, <<"m1", "m4">>,
              <<"m2", "m3">>, <<"m2", "m4">>, <<"m3", "m4">> >>

NONE == "none"

\* no row for a pair
NoEdge == [relationship_type |-> NONE, impact_direction |-> NONE, confidence_score |-> 0]

\* relationship_type, impact_direction and confidence_score (in units of
\* 1/1000) of a stored row
EdgeProfiles ==
  { [relationship_type |-> "equivalent",         impact_direction |-> "Positive", confidence_score |-> 900],
    [relationship_type |-> "mutually_exclusive", impact_direction |-> "Negative", confidence_score |-> 1000],
    [relationship_type |-> "correlated",         impact_direction |-> "Negative", confidence_score |-> 458],
    [relationship_type |-> "implied",            impact_direction |-> "Positive", confidence_score |-> 40] }

RECURSIVE RowsFrom(_, _)
RowsFrom(f, i) ==
  IF i > Len(PairSeq) THEN << >>
  ELSE IF f[i] = NoEdge THEN RowsFrom(f, i + 1)
  ELSE << [market_key_a      |-> PairSeq[i][1],
           market_key_b      |-> PairSeq[i][2],
           relationship_type |-> f[i].relationship_type,
           impact_direction  |-> f[i].impact_direction,
           confidence_score  |-> f[i].confidence_score] >> \o RowsFrom(f, i + 1)

Reverse(s) == [i \in 1..Len(s) |-> s[Len(s) + 1 - i]]

GraphSelections ==
  { f \in [DOMAIN PairSeq -> EdgeProfiles \cup {NoEdge}] :
      Cardinality({i \in DOMAIN PairSeq : f[i] # NoEdge}) <= MaxEdges }

\* the table contents a request can find, in either scan order
Graphs == { RowsFrom(f, 1) : f \in GraphSelections }
            \cup { Reverse(RowsFrom(f, 1)) : f \in GraphSelections }

----------------------------------------------------------------------------
\* Scenario engine: traverseGraph

\* propagateDirection flipping a correlated edge unless it is Positive
propagateDirectionNotPositive(currentDir, relationshipType, impactDirection) ==
  LET flip == IF currentDir = "UP" THEN "DOWN" ELSE "UP"
  IN CASE relationshipType \in {"equivalent", "implied", "implied_conditional"} -> currentDir
       [] relationshipType = "mutually_exclusive" -> flip
       [] relationshipType = "correlated" ->
            IF impactDirection # "Positive" THEN flip ELSE currentDir
       [] OTHER -> currentDir

propagateDirection(currentDir, relationshipType, impactDirection) ==
  LET flip == IF currentDir = "UP" THEN "DOWN" ELSE "UP"
  IN CASE relationshipType \in {"equivalent", "implied", "implied_conditional"} -> currentDir
       [] relationshipType = "mutually_exclusive" -> flip
       [] relationshipType = "correlated" ->
            IF impactDirection = "Negative" THEN flip ELSE currentDir
       [] OTHER -> currentDir

\* toFixed4 cutting the digits off instead of rounding
toFixed4Floor(pathConfidence, edgeConfidence) ==
  (pathConfidence * edgeConfidence) \div 1000

\* parseFloat((pathConfidence * edgeConfidence).toFixed(4)): pathConfidence in
\* 1/10000, edgeConfidence in 1/1000, result in 1/10000, rounded to nearest
toFixed4(pathConfidence, edgeConfidence) ==
  (pathConfidence * edgeConfidence + 500) \div 1000

\* if (depth >= MAX_DEPTH) continue
depthReached(depth) == depth >= MAX_DEPTH

\* isVisited without the guard
isVisitedNever(neighbor, seen) == FALSE

\* if (visited.has(neighbor)) continue
isVisited(neighbor, seen) == neighbor \in seen

\* a threshold that cuts no path
isPrunedNever(newPathConf) == newPathConf < 0

\* if (newPathConf < MIN_PATH_CONF) continue
isPruned(newPathConf) == newPathConf < MIN_PATH_CONF

\* relationships.filter(r => r.market_key_a === marketKey || r.market_key_b === marketKey)
edgesOf(rels, marketKey) ==
  SelectSeq(rels, LAMBDA r : r.market_key_a = marketKey \/ r.market_key_b = marketKey)

neighborOf(rel, marketKey) ==
  IF rel.market_key_a = marketKey THEN rel.market_key_b ELSE rel.market_key_a

\* a path that keeps the origin and the neighbour only
extendPathFromOrigin(path, neighbor) == <<path[1], neighbor>>

\* newPath = [...path, neighbor]
extendPath(path, neighbor) == Append(path, neighbor)

\* the for-loop over the edges of one dequeued entry; st carries visited,
\* impacts and queue
RECURSIVE visitEdges(_, _, _, _)
visitEdges(edges, i, entry, st) ==
  IF i > Len(edges) THEN st
  ELSE
    LET rel      == edges[i]
        neighbor == neighborOf(rel, entry.marketKey)
    IN IF isVisited(neighbor, st.visited) THEN visitEdges(edges, i + 1, entry, st)
       ELSE
         LET seen           == st.visited \cup {neighbor}
             edgeConfidence == rel.confidence_score
             newPathConf    == toFixed4(entry.pathConfidence, edgeConfidence)
         IN IF isPruned(newPathConf)
              THEN visitEdges(edges, i + 1, entry, [st EXCEPT !.visited = seen])
              ELSE
                LET newDir  == propagateDirection(entry.direction,
                                 rel.relationship_type, rel.impact_direction)
                    newPath == extendPath(entry.path, neighbor)
                IN visitEdges(edges, i + 1, entry,
                     [visited |-> seen,
                      impacts |-> Append(st.impacts,
                                    [market_key        |-> neighbor,
                                     order             |-> entry.depth + 1,
                                     relationship_type |-> rel.relationship_type,
                                     direction         |-> newDir,
                                     confidence_score  |-> newPathConf,
                                     edge_confidence   |-> edgeConfidence,
                                     path              |-> newPath]),
                      queue   |-> Append(st.queue,
                                    [marketKey      |-> neighbor,
                                     direction      |-> newDir,
                                     depth          |-> entry.depth + 1,
                                     path           |-> newPath,
                                     pathConfidence |-> newPathConf])])

\* impacts.sort((a, b) => b.confidence_score - a.confidence_score), stable
RECURSIVE insertDesc(_, _)
insertDesc(sorted, x) ==
  IF sorted = << >> THEN <<x>>
  ELSE IF Head(sorted).confidence_score >= x.confidence_score
    THEN <<Head(sorted)>> \o insertDesc(Tail(sorted), x)
    ELSE <<x>> \o sorted

\* a sort that puts the lowest confidence first
RECURSIVE insertAsc(_, _)
insertAsc(sorted, x) ==
  IF sorted = << >> THEN <<x>>
  ELSE IF Head(sorted).confidence_score <= x.confidence_score
    THEN <<Head(sorted)>> \o insertAsc(Tail(sorted), x)
    ELSE <<x>> \o sorted

RECURSIVE sortImpactsAscending(_)
sortImpactsAscending(s) ==
  IF s = << >> THEN << >>
  ELSE insertAsc(sortImpactsAscending(SubSeq(s, 1, Len(s) - 1)), s[Len(s)])

RECURSIVE sortImpacts(_)
sortImpacts(s) ==
  IF s = << >> THEN << >>
  ELSE insertDesc(sortImpacts(SubSeq(s, 1, Len(s) - 1)), s[Len(s)])

----------------------------------------------------------------------------
\* Scenario engine: saveReport

\* affectedNodes taking the market each impact was reached from
affectedNodesSource(imps) == [i \in 1..Len(imps) |-> imps[i].path[Len(imps[i].path) - 1]]

\* affected_nodes = impacts.map(i => i.market_key)
affectedNodes(imps) == [i \in 1..Len(imps) |-> imps[i].market_key]

\* the inner loop over the consecutive pairs of one impact's path
RECURSIVE pathEdges(_, _, _)
pathEdges(imp, i, acc) ==
  IF i > Len(imp.path) - 1 THEN acc
  ELSE
    LET key == <<imp.path[i], imp.path[i + 1]>>
    IN IF key \in acc.edgeSet THEN pathEdges(imp, i + 1, acc)
       ELSE pathEdges(imp, i + 1,
              [edgeSet |-> acc.edgeSet \cup {key},
               edges   |-> Append(acc.edges,
                             [source            |-> imp.path[i],
                              target            |-> imp.path[i + 1],
                              relationship_type |-> imp.relationship_type,
                              direction         |-> imp.direction,
                              confidence_score  |-> imp.edge_confidence])])

RECURSIVE edgesOfImpacts(_, _, _)
edgesOfImpacts(imps, j, acc) ==
  IF j > Len(imps) THEN acc.edges
  ELSE edgesOfImpacts(imps, j + 1, pathEdges(imps[j], 1, acc))

affectedEdges(imps) == edgesOfImpacts(imps, 1, [edgeSet |-> {}, edges |-> << >>])

\* status written by saveReport's insert
SAVED_STATUS == "completed"

----------------------------------------------------------------------------
\* Scenario request: the two handlers

NoResponse == [code |-> 0, kind |-> "none"]

\* no scenario request is being served
ScIdle ==
  /\ relationships = << >>
  /\ handler = "none"
  /\ body = "none"
  /\ reqPc = "idle"
  /\ target = NONE
  /\ initialDir = NONE
  /\ tq = << >>
  /\ visited = {}
  /\ impacts = << >>
  /\ expandLog = << >>
  /\ aiCalls = 0
  /\ aiFailed = FALSE
  /\ reports = << >>
  /\ response = NoResponse

ScInit ==
  /\ relationships \in Graphs
  /\ handler \in {"backend", "edge"}
  /\ body \in {"valid", "noquery", "badjson"}
  /\ reqPc = "request"
  /\ target = NONE
  /\ initialDir = NONE
  /\ tq = << >>
  /\ visited = {}
  /\ impacts = << >>
  /\ expandLog = << >>
  /\ aiCalls = 0
  /\ aiFailed = FALSE
  /\ reports = << >>
  /\ response = NoResponse

Respond(code, kind) ==
  /\ response' = [code |-> code, kind |-> kind]
  /\ reqPc' = "responded"

travVars == <<target, initialDir, tq, visited, impacts, expandLog>>

\* POST /api/scenario: JSON.parse(body), validation of query
BackendReceive ==
  /\ handler = "backend" /\ reqPc = "request"
  /\ CASE body = "badjson" -> Respond(500, "error")
       [] body = "noquery" -> Respond(400, "error")
       [] OTHER -> reqPc' = "load" /\ UNCHANGED response
  /\ UNCHANGED <<relationships, handler, body, aiCalls, aiFailed, reports>>
  /\ UNCHANGED travVars

\* predictScenario: await loadMarketGraph()
BackendLoad(outcome) ==
  /\ handler = "backend" /\ reqPc = "load"
  /\ IF outcome = "ok"
       THEN reqPc' = "parse" /\ UNCHANGED response
       ELSE Respond(500, "error")
  /\ UNCHANGED <<relationships, handler, body, aiCalls, aiFailed, reports>>
  /\ UNCHANGED travVars

\* predictScenario: await parseScenario(); on success traverseGraph starts
\* with the origin visited and queued at depth 0
BackendParse(outcome, t, d) ==
  /\ handler = "backend" /\ reqPc = "parse"
  /\ aiCalls' = aiCalls + 1
  /\ IF outcome = "ok"
       THEN /\ target' = t
            /\ initialDir' = d
            /\ visited' = {t}
            /\ impacts' = << >>
            /\ tq' = << [marketKey |-> t, direction |-> d, depth |-> 0,
                         path |-> <<t>>, pathConfidence |-> ORIGIN_CONF] >>
            /\ reqPc' = "traverse"
            /\ UNCHANGED <<response, aiFailed, expandLog>>
       ELSE /\ aiFailed' = TRUE
            /\ Respond(500, "error")
            /\ UNCHANGED travVars
  /\ UNCHANGED <<relationships, handler, body, reports>>

\* traverseGraph: one iteration of while (queue.length > 0)
BfsStep ==
  /\ handler = "backend" /\ reqPc = "traverse" /\ tq # << >>
  /\ LET entry == Head(tq)
     IN IF depthReached(entry.depth)
          THEN /\ tq' = Tail(tq)
               /\ UNCHANGED <<visited, impacts, expandLog>>
          ELSE LET st == visitEdges(edgesOf(relationships, entry.marketKey), 1, entry,
                           [visited |-> visited, impacts |-> impacts, queue |-> Tail(tq)])
               IN /\ tq' = st.queue
                  /\ visited' = st.visited
                  /\ impacts' = st.impacts
                  /\ expandLog' = Append(expandLog, entry.marketKey)
  /\ UNCHANGED <<relationships, handler, body, reqPc, target, initialDir,
                 aiCalls, aiFailed, reports, response>>

\* traverseGraph: the queue is empty, sort and return
BfsReturn ==
  /\ handler = "backend" /\ reqPc = "traverse" /\ tq = << >>
  /\ impacts' = sortImpacts(impacts)
  /\ reqPc' = "narrate"
  /\ UNCHANGED <<relationships, handler, body, target, initialDir, tq, visited,
                 expandLog, aiCalls, aiFailed, reports, response>>

\* predictScenario: buildRagContext, await generateNarratives(); no analyst
\* call is made when there are no impacts
BackendNarrate(outcome) ==
  /\ handler = "backend" /\ reqPc = "narrate"
  /\ IF impacts = << >>
       THEN /\ outcome = "ok"
            /\ reqPc' = "save"
            /\ UNCHANGED <<aiCalls, aiFailed, response>>
       ELSE /\ aiCalls' = aiCalls + 1
            /\ IF outcome = "ok"
                 THEN reqPc' = "save" /\ UNCHANGED <<aiFailed, response>>
                 ELSE aiFailed' = TRUE /\ Respond(500, "error")
  /\ UNCHANGED <<relationships, handler, body, reports>>
  /\ UNCHANGED travVars

\* predictScenario: await saveReport(), then the report is returned and
\* POST /api/scenario answers 200
BackendSave(outcome) ==
  /\ handler = "backend" /\ reqPc = "save"
  /\ reports' = IF outcome = "ok"
                  THEN Append(reports,
                         [status         |-> SAVED_STATUS,
                          written        |-> <<SAVED_STATUS>>,
                          aiCallsBefore  |-> aiCalls,
                          trigger_market |-> target,
                          causal_chain   |-> impacts,
                          affected_nodes |-> affectedNodes(impacts),
                          affected_edges |-> affectedEdges(impacts)])
                  ELSE reports
  /\ Respond(200, "report")
  /\ UNCHANGED <<relationships, handler, body, aiCalls, aiFailed>>
  /\ UNCHANGED travVars

\* Deno.serve handler: req.json(), validation of query
EdgeReceive ==
  /\ handler = "edge" /\ reqPc = "request"
  /\ CASE body = "badjson" -> Respond(500, "error")
       [] body = "noquery" -> Respond(400, "error")
       [] OTHER -> reqPc' = "insert" /\ UNCHANGED response
  /\ UNCHANGED <<relationships, handler, body, aiCalls, aiFailed, reports>>
  /\ UNCHANGED travVars

\* Deno.serve handler: insert({ query, trigger_market: "", status: "processing" })
EdgeInsert(outcome) ==
  /\ handler = "edge" /\ reqPc = "insert"
  /\ IF outcome = "ok"
       THEN /\ reports' = Append(reports,
                            [status         |-> "processing",
                             written        |-> <<"processing">>,
                             aiCallsBefore  |-> aiCalls,
                             trigger_market |-> "",
                             causal_chain   |-> << >>,
                             affected_nodes |-> << >>,
                             affected_edges |-> << >>])
            /\ reqPc' = "graph"
            /\ UNCHANGED response
       ELSE /\ Respond(500, "error")
            /\ UNCHANGED reports
  /\ UNCHANGED <<relationships, handler, body, aiCalls, aiFailed>>
  /\ UNCHANGED travVars

\* Deno.serve handler: fetch market_relationships and market_metadata
EdgeGraph(outcome) ==
  /\ handler = "edge" /\ reqPc = "graph"
  /\ IF outcome = "ok"
       THEN reqPc' = "analyst" /\ UNCHANGED response
       ELSE Respond(500, "error")
  /\ UNCHANGED <<relationships, handler, body, aiCalls, aiFailed, reports>>
  /\ UNCHANGED travVars

\* Deno.serve handler: the AI gateway call and the parse of its content
EdgeAnalyst(outcome) ==
  /\ handler = "edge" /\ reqPc = "analyst"
  /\ aiCalls' = aiCalls + 1
  /\ IF outcome = "ok"
       THEN reqPc' = "update" /\ UNCHANGED <<aiFailed, response>>
       ELSE aiFailed' = TRUE /\ Respond(500, "error")
  /\ UNCHANGED <<relationships, handler, body, reports>>
  /\ UNCHANGED travVars

\* Deno.serve handler: update({..., status: "complete"}).eq("id", reportId)
EdgeUpdate(outcome) ==
  /\ handler = "edge" /\ reqPc = "update"
  /\ IF outcome = "ok"
       THEN /\ reports' = [reports EXCEPT
                             ![1].status = "complete",
                             ![1].written = Append(@, "complete"),
                             ![1].trigger_market = "fromModel",
                             ![1].causal_chain = "fromModel",
                             ![1].affected_nodes = "fromModel",
                             ![1].affected_edges = "fromModel"]
            /\ reqPc' = "final"
            /\ UNCHANGED response
       ELSE /\ Respond(500, "error")
            /\ UNCHANGED reports
  /\ UNCHANGED <<relationships, handler, body, aiCalls, aiFailed>>
  /\ UNCHANGED travVars

\* Deno.serve handler: fetch the complete report and answer with it
EdgeRespond ==
  /\ handler = "edge" /\ reqPc = "final"
  /\ Respond(200, "report")
  /\ UNCHANGED <<relationships, handler, body, aiCalls, aiFailed, reports>>
  /\ UNCHANGED travVars

StoreOutcomes == {"ok", "error"}
AnalystOutcomes == {"ok", "fail", "unparsable"}

----------------------------------------------------------------------------
\* Scenario engine: properties

NoDup(s) == \A i, j \in DOMAIN s : i # j => s[i] # s[j]

\* the request has come back from traverseGraph
Traversed == handler = "backend" /\ reqPc \in {"narrate", "save", "responded"} /\ target # NONE

\* C3: every market key is expanded at most once and added to the impacts at
\* most once, and no impact has an order above MAX_DEPTH
C3_VisitOnceDepthBounded ==
  /\ NoDup(expandLog)
  /\ \A i, j \in DOMAIN impacts : i # j => impacts[i].market_key # impacts[j].market_key
  /\ \A i \in DOMAIN impacts : impacts[i].order <= MAX_DEPTH

\* a chain origin - x - y - z was traversed: x and y are impacts, y is of
\* order MAX_DEPTH, and a neighbour of y beyond the depth bound stays unvisited
C3_Witness ==
  /\ Traversed
  /\ Len(impacts) = 2
  /\ \E i \in DOMAIN impacts :
       /\ impacts[i].order = MAX_DEPTH
       /\ \E k \in DOMAIN relationships :
            /\ impacts[i].market_key \in {relationships[k].market_key_a, relationships[k].market_key_b}
            /\ {relationships[k].market_key_a, relationships[k].market_key_b} \ visited # {}

\* confidence_score of the row joining x and y, in 1/1000
confOf(x, y) ==
  LET k == CHOOSE k \in DOMAIN relationships :
             {relationships[k].market_key_a, relationships[k].market_key_b} = {x, y}
  IN relationships[k].confidence_score

\* product of the edge confidences along a path, in 1/1000^(Len(path)-1)
RECURSIVE PathProduct(_, _)
PathProduct(path, n) ==
  IF n <= 1 THEN 1 ELSE PathProduct(path, n - 1) * confOf(path[n - 1], path[n])

RECURSIVE PowThousand(_)
PowThousand(k) == IF k = 0 THEN 1 ELSE 1000 * PowThousand(k - 1)

\* the cumulative confidence c/10000 of an impact over k edges equals the
\* product P/1000^k of its edge confidences: c * 1000^(k-1) = 10 * P
ExactlyProduct(imp) ==
  imp.confidence_score * PowThousand(Len(imp.path) - 2)
    = 10 * PathProduct(imp.path, Len(imp.path))

\* x thousandths of 1/10000, to the nearest 1/10000
Nearest(x) == LET lo == x \div 1000 IN IF x - 1000 * lo < 500 THEN lo ELSE lo + 1

\* the product along a path, rounded to four decimals after every hop
RECURSIVE HopRounded(_, _)
HopRounded(path, n) ==
  IF n <= 1 THEN ORIGIN_CONF
  ELSE Nearest(HopRounded(path, n - 1) * confOf(path[n - 1], path[n]))

\* C4 as stated: every impact's cumulative confidence equals the exact product
\* of the edge confidences along its path and is at least MIN_PATH_CONF
C4_ExactProduct ==
  \A i \in DOMAIN impacts :
    /\ ExactlyProduct(impacts[i])
    /\ impacts[i].confidence_score >= MIN_PATH_CONF

\* C4 amended: every impact's cumulative confidence equals the product of the
\* edge confidences along its path rounded to four decimals after each hop,
\* and is at least MIN_PATH_CONF
C4_RoundedProduct ==
  \A i \in DOMAIN impacts :
    /\ impacts[i].confidence_score = HopRounded(impacts[i].path, Len(impacts[i].path))
    /\ impacts[i].confidence_score >= MIN_PATH_CONF

\* a second-order impact whose exact product has more than four decimals
C4_Witness ==
  /\ Traversed
  /\ \E i \in DOMAIN impacts :
       /\ impacts[i].order = 2
       /\ ~ExactlyProduct(impacts[i])

\* market keys on the union of the paths of a list of impacts
PathNodes(imps) == UNION { Range(imps[i].path) : i \in DOMAIN imps }

\* consecutive pairs on the union of the paths of a list of impacts
PathPairs(imps) ==
  UNION { { <<imps[i].path[k], imps[i].path[k + 1]>> : k \in 1..(Len(imps[i].path) - 1) }
          : i \in DOMAIN imps }

EdgePairs(edges) == { <<edges[k].source, edges[k].target>> : k \in DOMAIN edges }

\* rows written by saveReport
SavedRows == { k \in DOMAIN reports : handler = "backend" }

\* C5 as stated: affected_nodes is exactly the set of market keys on the union
\* of the impact paths, affected_edges exactly the consecutive pairs on them
C5_NodesOfPaths ==
  \A k \in SavedRows :
    /\ Range(reports[k].affected_nodes) = PathNodes(reports[k].causal_chain)
    /\ EdgePairs(reports[k].affected_edges) = PathPairs(reports[k].causal_chain)

\* C5 amended: affected_nodes holds, once each, the market keys on the union
\* of the impact paths other than the origin; affected_edges holds, once
\* each, the consecutive pairs on those paths
C5_NodesOfPathsButOrigin ==
  \A k \in SavedRows :
    /\ Range(reports[k].affected_nodes)
         = PathNodes(reports[k].causal_chain) \ {reports[k].trigger_market}
    /\ NoDup(reports[k].affected_nodes)
    /\ EdgePairs(reports[k].affected_edges) = PathPairs(reports[k].causal_chain)
    /\ NoDup([i \in DOMAIN reports[k].affected_edges |->
                <<reports[k].affected_edges[i].source, reports[k].affected_edges[i].target>>])

\* a saved report with a second-order impact, whose path shares its first
\* edge with the path of a first-order impact
C5_Witness ==
  \E k \in SavedRows :
    /\ \E i \in DOMAIN reports[k].causal_chain : reports[k].causal_chain[i].order = 2
    /\ Len(reports[k].affected_edges) = 2

ReportStatuses == {"pending", "processing", "complete", "failed"}

\* C7: every report row is created before any analyst-model call, in status
\* pending or processing; every status written is one of the four; a later
\* write only moves the row forward to complete or failed
C7_ReportLifecycle ==
  \A k \in DOMAIN reports :
    LET w == reports[k].written
    IN /\ reports[k].aiCallsBefore = 0
       /\ w[1] \in {"pending", "processing"}
       /\ \A n \in DOMAIN w : w[n] \in ReportStatuses
       /\ \A n \in DOMAIN w : n > 1 =>
            /\ w[n] \in {"complete", "failed"}
            /\ w[n - 1] \in {"pending", "processing"}

\* C8: a request whose analyst-model call failed has answered, and its report
\* row exists with status failed
C8_FailedReportOnAnalystError ==
  (reqPc = "responded" /\ aiFailed) =>
     /\ response.code # 0
     /\ reports # << >>
     /\ reports[Len(reports)].status = "failed"

----------------------------------------------------------------------------
\* Aggregator: the two exchange sessions

RECONNECT_BASE_DELAY == 1000
RECONNECT_MAX_DELAY == 30000
\* largest value of a session's attempt counter
MaxAttempt == 6
\* largest value of connectKalshi's cmdId
MaxCmdId == 5
\* number of quote frames the two sessions receive in one run
MaxFrames == 1

Venues == {"polymarket", "kalshi"}

\* values of Math.random() * 500, which lies in [0, 500)
Jitters == {0, 499}

FrameKinds == {"quote", "nonjson", "throws"}

RECURSIVE Pow2(_)
Pow2(n) == IF n = 0 THEN 1 ELSE 2 * Pow2(n - 1)

Min(a, b) == IF a <= b THEN a ELSE b

\* nextDelay(attempt) with the given value of the random jitter
nextDelay(att, jitter) ==
  Min(RECONNECT_BASE_DELAY * Pow2(att) + jitter, RECONNECT_MAX_DELAY)

NoSleep == [jitter |-> 0, delay |-> 0, wasOpen |-> FALSE]

SessInit ==
  /\ conn = [v \in Venues |-> "connecting"]
  /\ attempt = [v \in Venues |-> 0]
  /\ heartbeat = [v \in Venues |-> FALSE]
  /\ lastSleep = [v \in Venues |-> NoSleep]
  /\ streak = [v \in Venues |-> 0]
  /\ cmdId = 1
  /\ sentIds = << >>

\* resetAttempt leaving the counter as it is
resetAttemptNot(att, v) == att

\* ws.on('open'): attempt = 0
resetAttempt(att, v) == [att EXCEPT ![v] = 0]

\* bumpAttempt on a counter the two sessions share
bumpAttemptShared(att, v) == [w \in DOMAIN att |-> att[w] + 1]

\* nextDelay(attempt++): the counter after the post-increment
bumpAttempt(att, v) == [att EXCEPT ![v] = @ + 1]

\* command ids taken from a counter that starts again with every connection
subscribeIdsFromOne(id) == <<1, 2>>

\* the ids of the two subscribe frames of one connection: id: cmdId++, twice
subscribeIds(id) == <<id, id + 1>>

\* ws.on('open'): reset the backoff, send the subscription frame(s), start the
\* heartbeat interval.  connectKalshi sends two frames with id: cmdId++.
Open(v) ==
  /\ bwPc # "exited"
  /\ conn[v] = "connecting"
  /\ conn' = [conn EXCEPT ![v] = "open"]
  /\ attempt' = resetAttempt(attempt, v)
  /\ heartbeat' = [heartbeat EXCEPT ![v] = TRUE]
  /\ streak' = [streak EXCEPT ![v] = 0]
  /\ IF v = "kalshi"
       THEN /\ cmdId + 2 <= MaxCmdId
            /\ sentIds' = sentIds \o subscribeIds(cmdId)
            /\ cmdId' = cmdId + 2
       ELSE UNCHANGED <<cmdId, sentIds>>
  /\ UNCHANGED lastSleep

\* ws.on('close') (after a disconnection, a socket error or a failed
\* handshake): clearInterval(heartbeat), resolve; then
\* delay = nextDelay(attempt++) and the loop sleeps
Close(v) ==
  /\ bwPc # "exited"
  /\ conn[v] \in {"connecting", "open"}
  /\ attempt[v] < MaxAttempt
  /\ \E jitter \in Jitters :
       lastSleep' = [lastSleep EXCEPT ![v] =
                       [jitter  |-> jitter,
                        delay   |-> nextDelay(attempt[v], jitter),
                        wasOpen |-> conn[v] = "open"]]
  /\ conn' = [conn EXCEPT ![v] = "sleeping"]
  /\ attempt' = bumpAttempt(attempt, v)
  /\ heartbeat' = [heartbeat EXCEPT ![v] = FALSE]
  /\ streak' = [streak EXCEPT ![v] = @ + 1]
  /\ UNCHANGED <<cmdId, sentIds>>

\* a sleep that never returns
WakeNever(v) ==
  /\ conn[v] = "sleeping"
  /\ FALSE
  /\ UNCHANGED <<conn, attempt, heartbeat, lastSleep, streak, cmdId, sentIds>>

\* await sleep(delay) returns: the while (true) loop opens a new socket
Wake(v) ==
  /\ bwPc # "exited"
  /\ conn[v] = "sleeping"
  /\ conn' = [conn EXCEPT ![v] = "connecting"]
  /\ UNCHANGED <<attempt, heartbeat, lastSleep, streak, cmdId, sentIds>>

sessVars == <<conn, attempt, heartbeat, lastSleep, streak, cmdId, sentIds>>

\* ws.on('message'): a frame that is not JSON is skipped, a message whose
\* normalization throws is logged, a quote is handed to inserter.enqueue
OnMessage(v, kind) ==
  /\ bwPc # "exited"
  /\ conn[v] = "open"
  /\ IF kind = "quote"
       THEN /\ nextId <= MaxFrames
            /\ EnqueueRecord(nextId)
       ELSE UNCHANGED bwVars
  /\ UNCHANGED sessVars

----------------------------------------------------------------------------
\* Aggregator: properties

\* C9: a sleeping session sleeps min(base * 2^k + jitter, cap), which is at
\* most cap, where k counts the closes since the last open before this one,
\* and k is 0 when the connection that closed had opened
C9_BackoffDelay ==
  \A v \in Venues :
    conn[v] = "sleeping" =>
      /\ lastSleep[v].delay
           = Min(RECONNECT_BASE_DELAY * Pow2(streak[v] - 1) + lastSleep[v].jitter,
                 RECONNECT_MAX_DELAY)
      /\ lastSleep[v].delay <= RECONNECT_MAX_DELAY
      /\ lastSleep[v].wasOpen => streak[v] = 1

\* a session sleeps the capped delay after a run of failed attempts
C9_Witness ==
  \E v \in Venues :
    /\ conn[v] = "sleeping"
    /\ streak[v] >= 2
    /\ lastSleep[v].delay = RECONNECT_MAX_DELAY
    /\ RECONNECT_BASE_DELAY * Pow2(streak[v] - 1) > RECONNECT_MAX_DELAY

\* a step of venue v's session that is a failure or part of its recovery
FailureOf(v) ==
  \/ Close(v)
  \/ Wake(v)
  \/ \E kind \in {"nonjson", "throws"} : OnMessage(v, kind)

\* C10: a close, a malformed frame or a reconnect sleep of one venue leaves
\* the other venue's connection state, attempt counter and heartbeat timer
\* unchanged, and the process (with its message processing) running
C10_NoSharedFate ==
  [][ \A v \in Venues :
        FailureOf(v) =>
          /\ \A o \in Venues \ {v} :
               /\ conn'[o] = conn[o]
               /\ attempt'[o] = attempt[o]
               /\ heartbeat'[o] = heartbeat[o]
               /\ (ENABLED OnMessage(o, "nonjson"))' = ENABLED OnMessage(o, "nonjson")
          /\ bwPc' = bwPc ]_vars

\* one session is backing off after repeated failures while the other is
\* open with its heartbeat running and its backoff reset
C10_Witness ==
  \E v \in Venues, o \in Venues :
    /\ v # o
    /\ conn[v] = "sleeping" /\ attempt[v] >= 2
    /\ conn[o] = "open" /\ heartbeat[o] /\ attempt[o] = 0

----------------------------------------------------------------------------
\* Scenario engine: propagateDirection applied to an edge, once and again

RelationshipTypes ==
  {"equivalent", "implied", "implied_conditional", "mutually_exclusive", "correlated", "other"}
ImpactDirections == {"Positive", "Negative", "Neutral", NONE}

DirIdle == dirCall = [currentDir |-> NONE, relationshipType |-> NONE,
                      impactDirection |-> NONE, step |-> 0, once |-> NONE, twice |-> NONE]

DirInit ==
  dirCall \in [currentDir : Directions, relationshipType : RelationshipTypes,
               impactDirection : ImpactDirections, step : {0}, once : {NONE}, twice : {NONE}]

\* the direction is propagated across the edge
PropagateOnce ==
  /\ dirCall.step = 0
  /\ dirCall' = [dirCall EXCEPT
                   !.step = 1,
                   !.once = propagateDirection(dirCall.currentDir,
                              dirCall.relationshipType, dirCall.impactDirection)]

\* the result is propagated across the same edge again
PropagateTwice ==
  /\ dirCall.step = 1
  /\ dirCall' = [dirCall EXCEPT
                   !.step = 2,
                   !.twice = propagateDirection(dirCall.once,
                               dirCall.relationshipType, dirCall.impactDirection)]

\* C6: across equivalent or implied the direction is kept; across correlated
\* it flips exactly when impact_direction is Negative; across
\* mutually_exclusive two propagations give the original direction back
C6_DirectionAlgebra ==
  /\ (dirCall.step >= 1 /\ dirCall.relationshipType \in {"equivalent", "implied"})
       => dirCall.once = dirCall.currentDir
  /\ (dirCall.step >= 1 /\ dirCall.relationshipType = "correlated")
       => (dirCall.once # dirCall.currentDir <=> dirCall.impactDirection = "Negative")
  /\ (dirCall.step = 2 /\ dirCall.relationshipType = "mutually_exclusive")
       => dirCall.twice = dirCall.currentDir

\* a direction went across a mutually_exclusive edge twice: flipped, then back
C6_Witness ==
  /\ dirCall.step = 2
  /\ dirCall.relationshipType = "mutually_exclusive"
  /\ dirCall.once # dirCall.currentDir
  /\ dirCall.twice = dirCall.currentDir

----------------------------------------------------------------------------
\* Arbitrage scanner

SPREAD_THRESHOLD == 3
LIQUIDITY_THRESHOLD == 500
DEMO_LIQUIDITY_USD == 1000
\* largest number of scan cycles in one run
MaxCycles == 1

\* a text column that is NULL, a key that is absent
NULLV == "null"
\* a numeric column that is NULL
NULLN == -1

\* market keys of the scanner's catalog: two demo markets and one that has no
\* entry in DEMO_PROBS
HunterMarkets == {"demo_fed_hold_v1", "demo_fed_hold_v2", "live_only"}

\* DEMO_PROBS[marketKey], NULLV when the key is absent
DEMO_PROBS(marketKey) ==
  CASE marketKey = "demo_fed_hold_v1" -> 82
    [] marketKey = "demo_fed_hold_v2" -> 79
    [] OTHER -> NULLN

\* market_metadata: polymarket_token_id ?? kalshi_ticker ?? null per market
\* key; demo_fed_hold_v2 has neither identifier
EventIdOf(marketKey) ==
  CASE marketKey = "demo_fed_hold_v1" -> "token_v1"
    [] marketKey = "live_only" -> "ticker_k"
    [] OTHER -> NULLV

EventIds == {"token_v1", "ticker_k"}

NoSignal == [probability_pct |-> NULLN, liquidity_depth_usd |-> NULLN, present |-> FALSE]

\* the newest market_signals row of an event id: probability (percent) and
\* depth (USD), either of which can be NULL
SignalRows ==
  [probability_pct : {NULLN, 79, 83, 86}, liquidity_depth_usd : {NULLN, 500, 501},
   present : {TRUE}]

HunterPairs == << <<"demo_fed_hold_v1", "demo_fed_hold_v2">>,
                  <<"demo_fed_hold_v1", "live_only">>,
                  <<"demo_fed_hold_v2", "live_only">> >>

HunterTypes == {"equivalent", "correlated"}

RECURSIVE HunterRows(_, _)
HunterRows(f, i) ==
  IF i > Len(HunterPairs) THEN << >>
  ELSE IF f[i] = NONE THEN HunterRows(f, i + 1)
  ELSE << [market_key_a |-> HunterPairs[i][1], market_key_b |-> HunterPairs[i][2],
           relationship_type |-> f[i]] >> \o HunterRows(f, i + 1)

HunterTables ==
  { HunterRows(f, 1) : f \in [DOMAIN HunterPairs -> HunterTypes \cup {NONE}] }

\* outcomes records how the three fetches of the cycle ended (history)
NothingFetched ==
  [pairs |-> << >>, metaMap |-> << >>, signalMap |-> << >>,
   outcomes |-> [pairs |-> "ok", meta |-> "ok", signals |-> "ok"]]

\* the scanner is not running
HunterIdle ==
  /\ hunter = NONE
  /\ hRel = << >>
  /\ hSignals = << >>
  /\ hPc = "idle"
  /\ hFetched = NothingFetched
  /\ hIdx = 0
  /\ opportunities = << >>
  /\ alertRows = << >>
  /\ cycleCount = 0

HunterInit ==
  /\ hunter \in {"fallback", "liveOnly"}
  /\ hRel \in HunterTables
  /\ hSignals \in [EventIds -> SignalRows \cup {NoSignal}]
  /\ hPc = "idle"
  /\ hFetched = NothingFetched
  /\ hIdx = 0
  /\ opportunities = << >>
  /\ alertRows = << >>
  /\ cycleCount = 0

\* fetchEquivalentPairs: .eq('relationship_type', 'equivalent'); [] on error
fetchEquivalentPairs(rows, outcome) ==
  IF outcome = "error" THEN << >>
  ELSE SelectSeq(rows, LAMBDA r : r.relationship_type = "equivalent")

\* fetchMetadataMap: market_key -> event id for the rows that have one; {} on
\* error
fetchMetadataMap(outcome) ==
  [m \in HunterMarkets |-> IF outcome = "error" THEN NULLV ELSE EventIdOf(m)]

\* fetchLatestSignals: first row per event id, liquidity_depth_usd ?? 0; {} on
\* error
fetchLatestSignals(signals, outcome) ==
  [e \in EventIds |->
     IF outcome = "error" \/ ~signals[e].present THEN NoSignal
     ELSE [probability_pct     |-> signals[e].probability_pct,
           liquidity_depth_usd |-> IF signals[e].liquidity_depth_usd = NULLN
                                     THEN 0 ELSE signals[e].liquidity_depth_usd,
           present             |-> TRUE]]

\* signalMap[eventId] of a market key, absent without an event id
liveOf(marketKey, mMap, sMap) ==
  IF mMap[marketKey] = NULLV THEN NoSignal ELSE sMap[mMap[marketKey]]

\* the null a side resolves to when it has no signal
Unresolved ==
  [probability_pct |-> NULLN, liquidity_depth_usd |-> NULLN, isDemo |-> FALSE,
   resolved |-> FALSE]

\* resolveSignal(marketKey, metaMap, signalMap) of the copy with the demo
\* fallback
resolveSignal(marketKey, mMap, sMap) ==
  LET live == liveOf(marketKey, mMap, sMap)
  IN IF live.present /\ live.probability_pct # NULLN
       THEN [probability_pct |-> live.probability_pct,
             liquidity_depth_usd |-> live.liquidity_depth_usd, isDemo |-> FALSE,
             resolved |-> TRUE]
     ELSE IF DEMO_PROBS(marketKey) # NULLN
       THEN [probability_pct |-> DEMO_PROBS(marketKey),
             liquidity_depth_usd |-> DEMO_LIQUIDITY_USD, isDemo |-> TRUE,
             resolved |-> TRUE]
     ELSE Unresolved

\* the copy without the fallback: sig = id ? signalMap[id] : null, and the
\* guards on a missing signal or a null probability_pct
resolveLive(marketKey, mMap, sMap) ==
  LET live == liveOf(marketKey, mMap, sMap)
  IN IF ~live.present THEN Unresolved
     ELSE IF live.probability_pct = NULLN THEN Unresolved
     ELSE [probability_pct |-> live.probability_pct,
           liquidity_depth_usd |-> live.liquidity_depth_usd, isDemo |-> FALSE,
           resolved |-> TRUE]

\* the signal the running copy uses for a side
sideSignal(h, marketKey, mMap, sMap) ==
  IF h = "fallback" THEN resolveSignal(marketKey, mMap, sMap)
  ELSE resolveLive(marketKey, mMap, sMap)

Abs(x) == IF x < 0 THEN -x ELSE x

\* the gate with its comparisons turned non-strict
isOpportunityAtLeast(spread, liquidityA, liquidityB) ==
  /\ spread >= SPREAD_THRESHOLD
  /\ liquidityA >= LIQUIDITY_THRESHOLD
  /\ liquidityB >= LIQUIDITY_THRESHOLD

\* spread > SPREAD_THRESHOLD && liquidityA > LIQUIDITY_THRESHOLD && liquidityB > LIQUIDITY_THRESHOLD
isOpportunity(spread, liquidityA, liquidityB) ==
  /\ spread > SPREAD_THRESHOLD
  /\ liquidityA > LIQUIDITY_THRESHOLD
  /\ liquidityB > LIQUIDITY_THRESHOLD

\* alertStatus = isDemo ? 'SIMULATED_EXECUTION' : 'ALERT'; the copy without
\* the fallback passes 'ALERT'
alertStatus(h, isDemo) ==
  IF h = "fallback" /\ isDemo THEN "SIMULATED_EXECUTION" ELSE "ALERT"

\* runScan up to the for loop: cycleCount++, the three fetches; the scan
\* returns at once when there are no equivalent pairs
ScanStart(pairsOutcome, metaOutcome, signalOutcome) ==
  /\ hPc = "idle"
  /\ hunter # NONE
  /\ cycleCount < MaxCycles
  /\ cycleCount' = cycleCount + 1
  /\ LET pairs == fetchEquivalentPairs(hRel, pairsOutcome)
     IN IF Len(pairs) = 0
          THEN /\ hFetched' = [NothingFetched EXCEPT !.outcomes.pairs = pairsOutcome]
               /\ metaOutcome = "ok" /\ signalOutcome = "ok"
               /\ opportunities' = << >>
               /\ UNCHANGED <<hPc, hIdx>>
          ELSE /\ hFetched' = [pairs     |-> pairs,
                               metaMap   |-> fetchMetadataMap(metaOutcome),
                               signalMap |-> fetchLatestSignals(hSignals, signalOutcome),
                               outcomes  |-> [pairs |-> pairsOutcome, meta |-> metaOutcome,
                                              signals |-> signalOutcome]]
               /\ hPc' = "scanning"
               /\ hIdx' = 1
               /\ opportunities' = << >>
  /\ UNCHANGED <<hunter, hRel, hSignals, alertRows>>

\* one iteration of the for loop over the pairs, insertAlert included
ScanPair(insertOutcome) ==
  /\ hPc = "scanning"
  /\ hIdx <= Len(hFetched.pairs)
  /\ hIdx' = hIdx + 1
  /\ LET pair == hFetched.pairs[hIdx]
         sigA == sideSignal(hunter, pair.market_key_a, hFetched.metaMap, hFetched.signalMap)
         sigB == sideSignal(hunter, pair.market_key_b, hFetched.metaMap, hFetched.signalMap)
     IN IF ~sigA.resolved \/ ~sigB.resolved
          THEN /\ insertOutcome = "ok"
               /\ UNCHANGED <<opportunities, alertRows>>
          ELSE
            LET spread == Abs(sigA.probability_pct - sigB.probability_pct)
                status == alertStatus(hunter, sigA.isDemo \/ sigB.isDemo)
                row    == [market_key_a |-> pair.market_key_a,
                           market_key_b |-> pair.market_key_b,
                           spread |-> spread, potential_profit_pct |-> spread,
                           status |-> status]
            IN IF isOpportunity(spread, sigA.liquidity_depth_usd, sigB.liquidity_depth_usd)
                 THEN /\ alertRows' = IF insertOutcome = "ok"
                                        THEN Append(alertRows, row) ELSE alertRows
                      /\ opportunities' = Append(opportunities,
                                            [row |-> row, inserted |-> insertOutcome = "ok"])
                 ELSE /\ insertOutcome = "ok"
                      /\ UNCHANGED <<opportunities, alertRows>>
  /\ UNCHANGED <<hunter, hRel, hSignals, hPc, hFetched, cycleCount>>

\* the for loop is over: printDashboard, runScan returns
ScanEnd ==
  /\ hPc = "scanning"
  /\ hIdx > Len(hFetched.pairs)
  /\ hPc' = "idle"
  /\ UNCHANGED <<hunter, hRel, hSignals, hFetched, hIdx, opportunities, alertRows,
                 cycleCount>>

----------------------------------------------------------------------------
\* Arbitrage scanner: properties

\* a scan cycle has run to its end
ScanOver == hPc = "idle" /\ cycleCount > 0

\* the cycle read the three tables without an error
FetchesOk ==
  /\ hFetched.outcomes.pairs = "ok"
  /\ hFetched.outcomes.meta = "ok"
  /\ hFetched.outcomes.signals = "ok"

\* the market has a live quote: a newest row with a probability, under the
\* event id of the market
HasLive(m) ==
  /\ EventIdOf(m) # NULLV
  /\ hSignals[EventIdOf(m)].present
  /\ hSignals[EventIdOf(m)].probability_pct # NULLN

HasDemo(m) == m \in {"demo_fed_hold_v1", "demo_fed_hold_v2"}

LiveProb(m) == hSignals[EventIdOf(m)].probability_pct

LiveDepth(m) ==
  IF hSignals[EventIdOf(m)].liquidity_depth_usd = NULLN THEN 0
  ELSE hSignals[EventIdOf(m)].liquidity_depth_usd

DemoProb(m) == IF m = "demo_fed_hold_v1" THEN 82 ELSE 79

\* the side resolves to a signal in the copy that runs
Resolves(m) == HasLive(m) \/ (hunter = "fallback" /\ HasDemo(m))

ProbOf(m) == IF HasLive(m) THEN LiveProb(m) ELSE DemoProb(m)

DepthOf(m) == IF HasLive(m) THEN LiveDepth(m) ELSE 1000

\* an alert was emitted for the pair in the cycle
Emitted(a, b) ==
  \E i \in DOMAIN opportunities :
    opportunities[i].row.market_key_a = a /\ opportunities[i].row.market_key_b = b

GatePasses(a, b) ==
  /\ Abs(ProbOf(a) - ProbOf(b)) > 3
  /\ DepthOf(a) > 500
  /\ DepthOf(b) > 500

\* C11: after a scan cycle that read its tables, an alert was emitted for a
\* row exactly when the row is equivalent, both sides resolve to a signal,
\* the spread is above 3.0 points and each depth is above 500; at most one
\* alert per row
C11_AlertIffGate ==
  (ScanOver /\ FetchesOk) =>
    /\ \A k \in DOMAIN hRel :
         Emitted(hRel[k].market_key_a, hRel[k].market_key_b)
           <=> /\ hRel[k].relationship_type = "equivalent"
               /\ Resolves(hRel[k].market_key_a)
               /\ Resolves(hRel[k].market_key_b)
               /\ GatePasses(hRel[k].market_key_a, hRel[k].market_key_b)
    /\ Len(opportunities) <= Len(hRel)

\* a cycle emitted an alert for one equivalent row and none for another
\* equivalent row whose sides both resolve but whose spread is exactly 3 or
\* whose depth is exactly 500
C11_Witness ==
  /\ ScanOver /\ FetchesOk
  /\ opportunities # << >>
  /\ \E k \in DOMAIN hRel :
       /\ hRel[k].relationship_type = "equivalent"
       /\ Resolves(hRel[k].market_key_a) /\ Resolves(hRel[k].market_key_b)
       /\ ~Emitted(hRel[k].market_key_a, hRel[k].market_key_b)
       /\ \/ Abs(ProbOf(hRel[k].market_key_a) - ProbOf(hRel[k].market_key_b)) = 3
          \/ 500 \in {DepthOf(hRel[k].market_key_a), DepthOf(hRel[k].market_key_b)}

\* C12: each side uses the live quote when there is one and else the demo
\* probability; a pair is skipped only when a side has neither; an emitted
\* alert is simulated exactly when a side came from the demo table
C12_DemoFallback ==
  (ScanOver /\ FetchesOk) =>
    \A k \in DOMAIN hRel :
      LET a == hRel[k].market_key_a
          b == hRel[k].market_key_b
      IN hRel[k].relationship_type = "equivalent" =>
           /\ Emitted(a, b)
                <=> /\ HasLive(a) \/ HasDemo(a)
                    /\ HasLive(b) \/ HasDemo(b)
                    /\ GatePasses(a, b)
           /\ \A i \in DOMAIN opportunities :
                (opportunities[i].row.market_key_a = a /\ opportunities[i].row.market_key_b = b)
                  => /\ opportunities[i].row.spread = Abs(ProbOf(a) - ProbOf(b))
                     /\ opportunities[i].row.status
                          = IF HasLive(a) /\ HasLive(b) THEN "ALERT" ELSE "SIMULATED_EXECUTION"

----------------------------------------------------------------------------
\* Classifier (agent.js): runAgent, classifyPair, storeRelationship

CONCURRENCY_LIMIT == 5

\* market keys are strings; a key is the sequence of its code units, so that
\* the order of Array.prototype.sort on strings can be computed
MarketKeyUniverse == {<<1>>, <<1, 1>>, <<2>>}

ResolutionDates == {1, 2}

\* market_metadata tables: market_key is the primary key
Catalogs ==
  {c \in SUBSET [market_key : MarketKeyUniverse, resolution_date : ResolutionDates] :
     \A r1 \in c, r2 \in c : r1.market_key = r2.market_key => r1 = r2}

\* the comparison of two strings by code units: a proper prefix comes first
RECURSIVE LexLess(_, _)
LexLess(s, t) ==
  IF t = << >> THEN FALSE
  ELSE IF s = << >> THEN TRUE
  ELSE IF Head(s) # Head(t) THEN Head(s) < Head(t)
  ELSE LexLess(Tail(s), Tail(t))

\* [a, b].sort() left as it is
sortPairKeep(a, b) == <<a, b>>

\* [marketA.market_key, marketB.market_key].sort()
sortPair(a, b) == IF LexLess(b, a) THEN <<b, a>> ELSE <<a, b>>

\* the results select('*').order('resolution_date') can return: every row
\* once, dates ascending, rows of one date in any order
fetchMarkets(c) ==
  {s \in [1..Cardinality(c) -> c] :
     /\ \A i \in DOMAIN s, j \in DOMAIN s : s[i] = s[j] => i = j
     /\ \A i \in DOMAIN s, j \in DOMAIN s :
          i < j => s[i].resolution_date <= s[j].resolution_date}

\* the inner for loop of runAgent: agentPairs [markets[i], markets[j]] for j > i
RECURSIVE pairsOfRow(_, _, _)
pairsOfRow(markets, i, j) ==
  IF j > Len(markets) THEN << >>
  ELSE <<<<markets[i].market_key, markets[j].market_key>>>>
         \o pairsOfRow(markets, i, j + 1)

\* the outer for loop of runAgent
RECURSIVE allPairs(_, _)
allPairs(markets, i) ==
  IF i > Len(markets) THEN << >>
  ELSE pairsOfRow(markets, i, i + 1) \o allPairs(markets, i + 1)

\* analyst responses, as sequences of lexemes:
\*   "J" the fence "```json", "F" the fence "```", "O" the text from the first
\*   brace of a JSON object, "C" its last brace, "T" prose, "S" white space
ClassifierResponses ==
  { <<"S", "O", "C", "S">>,            \* the object between line breaks
    <<"J", "S", "O", "C", "S", "F">>,  \* the object in a json fence
    <<"T", "O", "C", "T">>,            \* the object inside prose
    <<"C", "T", "O">> }                \* prose with braces out of order

RECURSIVE trimStart(_)
trimStart(s) ==
  IF s # << >> /\ Head(s) = "S" THEN trimStart(Tail(s)) ELSE s

RECURSIVE trimEnd(_)
trimEnd(s) ==
  IF s # << >> /\ s[Len(s)] = "S" THEN trimEnd(SubSeq(s, 1, Len(s) - 1)) ELSE s

\* String.prototype.trim
trim(s) == trimEnd(trimStart(s))

\* JSON.parse succeeds: white space aside, the text is one object
JSONparses(s) == SelectSeq(s, LAMBDA t : t # "S") = <<"O", "C">>

\* replace(/^```json\s*/i, '')
stripJsonFence(s) ==
  IF s # << >> /\ Head(s) = "J" THEN trimStart(Tail(s)) ELSE s

\* replace(/^```\s*/i, '')
stripOpenFence(s) ==
  IF s # << >> /\ Head(s) = "F" THEN trimStart(Tail(s)) ELSE s

\* replace(/```\s*$/, '')
stripCloseFence(s) ==
  IF trimEnd(s) # << >> /\ trimEnd(s)[Len(trimEnd(s))] = "F"
    THEN SubSeq(trimEnd(s), 1, Len(trimEnd(s)) - 1)
    ELSE s

\* the text both parsers hand to JSON.parse after removing the fences
stripFences(raw) == trim(stripCloseFence(stripOpenFence(stripJsonFence(raw))))

\* raw.indexOf('{') and raw.lastIndexOf('}'), 0 when there is none
indexOfBrace(raw) ==
  IF \E i \in DOMAIN raw : raw[i] = "O"
    THEN CHOOSE i \in DOMAIN raw : raw[i] = "O" /\ \A j \in 1..(i - 1) : raw[j] # "O"
    ELSE 0

lastIndexOfBrace(raw) ==
  IF \E i \in DOMAIN raw : raw[i] = "C"
    THEN CHOOSE i \in DOMAIN raw : raw[i] = "C" /\ \A j \in (i + 1)..Len(raw) : raw[j] # "C"
    ELSE 0

\* extractJson of the scenario engine returns an object
extractJson(raw) ==
  \/ JSONparses(trim(raw))
  \/ JSONparses(stripFences(raw))
  \/ /\ indexOfBrace(raw) # 0
     /\ lastIndexOfBrace(raw) # 0
     /\ lastIndexOfBrace(raw) > indexOfBrace(raw)
     /\ JSONparses(SubSeq(raw, indexOfBrace(raw), lastIndexOfBrace(raw)))

\* the try block of classifyPair that parses the response
classifierParses(raw) == JSONparses(stripFences(raw))

\* relationship_type values the analyst may answer with
AnalystTypes == {"equivalent", "unrelated"}

\* CHECK (relationship_type IN (...)) of market_relationships
CheckedTypes == {"equivalent", "implied", "mutually_exclusive", "correlated"}

\* classifyPair: the record it returns, or NoRel for null
NoRel == [market_key_a |-> << >>, market_key_b |-> << >>, relationship_type |-> "null"]

\* classifyPair returning the keys in the order of its arguments
classifyPairAsListed(marketA, marketB, analystOutcome, raw, relType) ==
  IF analystOutcome # "ok" THEN NoRel
  ELSE IF ~classifierParses(raw) THEN NoRel
  ELSE [market_key_a |-> marketA, market_key_b |-> marketB, relationship_type |-> relType]

classifyPair(marketA, marketB, analystOutcome, raw, relType) ==
  IF analystOutcome # "ok" THEN NoRel
  ELSE IF ~classifierParses(raw) THEN NoRel
  ELSE [market_key_a      |-> sortPair(marketA, marketB)[1],
        market_key_b      |-> sortPair(marketA, marketB)[2],
        relationship_type |-> relType]

\* the upsert is accepted: no store error, the CHECK constraint holds
upsertOk(rel, storeOutcome) ==
  storeOutcome = "ok" /\ rel.relationship_type \in CheckedTypes

\* an upsert that leaves the new row alone in the table
upsertOverAll(table, rel, storeOutcome) ==
  IF ~upsertOk(rel, storeOutcome) THEN table ELSE {rel}

\* upsert(record, { onConflict: 'market_key_a,market_key_b' })
upsert(table, rel, storeOutcome) ==
  IF ~upsertOk(rel, storeOutcome) THEN table
  ELSE {r \in table : ~(r.market_key_a = rel.market_key_a /\ r.market_key_b = rel.market_key_b)}
         \cup {rel}

\* no response: the analyst call failed
NoAnswer == << >>

\* polymarket_token_id and kalshi_ticker of a catalog row: NULL, the empty
\* text, an identifier, a placeholder ticker
TokenIds == {NULLV, "", "token_a"}
TickerIds == {NULLV, "ticker_b", "DEMO-ticker"}
SignalIds == {"", "token_a", "ticker_b", "DEMO-ticker"}

\* probability_pct of the market_signals rows of one event id, newest first
QuoteLists == {<< >>, <<40>>, <<NULLN, 60>>}

NoProbe ==
  [market |-> [market_key |-> NULLV, polymarket_token_id |-> NULLV, kalshi_ticker |-> NULLV],
   signals |-> [e \in SignalIds |-> << >>],
   done |-> FALSE, classifier |-> NULLN, engine |-> NULLN, scanner |-> NULLN]

\* the record classifyPair returns for a parsed response, before a call
NoRecord ==
  [market_key_a |-> << >>, market_key_b |-> << >>, relationship_type |-> "null",
   logic_justification |-> << >>, arbitrage_flag |-> "null", risk_alert |-> "null",
   probability_a |-> NULLN, probability_b |-> NULLN, probability_spread |-> NULLN]

NoPairCall ==
  [marketA |-> << >>, marketB |-> << >>, probA |-> NULLN, probB |-> NULLN,
   relationship_type |-> "null", done |-> FALSE, rel |-> NoRecord]

\* the event ids of the catalog, and an id no catalog row names
CatalogIds == {"token_a", "ticker_b"}
STRAY == "stray"

NoScan ==
  [table |-> << >>, outcome |-> "none", done |-> FALSE,
   scanner |-> [e \in CatalogIds |-> NULLN],
   classifier |-> [e \in CatalogIds |-> NULLN],
   engine |-> [e \in CatalogIds |-> NULLN]]

\* pLimit was not called
NoPool == [queue |-> << >>, running |-> << >>, started |-> << >>, settled |-> {}]

NoTask == [raw |-> NoAnswer, called |-> FALSE, skipped |-> FALSE]

NoRun == [ran |-> FALSE, keys |-> {}, tableKeys |-> {}]

\* the (market_key_a, market_key_b) values of a table
KeysOf(table) == {<<r.market_key_a, r.market_key_b>> : r \in table}

ClassifierIdle ==
  /\ catalog = {}
  /\ relTable = {}
  /\ agentPc = "idle"
  /\ agentPairs = << >>
  /\ agentFinished = {}
  /\ lastTask = NoTask
  /\ thisRun = {}
  /\ prevRun = NoRun
  /\ probe = NoProbe
  /\ pool = NoPool
  /\ pairCall = NoPairCall
  /\ scan = NoScan

\* before the first run: a catalog is in place, market_relationships is empty
ClassifierInit ==
  /\ catalog \in Catalogs
  /\ relTable = {}
  /\ agentPc = "idle"
  /\ agentPairs = << >>
  /\ agentFinished = {}
  /\ lastTask = NoTask
  /\ thisRun = {}
  /\ prevRun = NoRun
  /\ probe = NoProbe
  /\ pool = NoPool
  /\ pairCall = NoPairCall
  /\ scan = NoScan

\* runAgent up to pLimit: the catalog is fetched and the pairs are enumerated;
\* when fetchMarkets throws, runAgent rejects and the process exits
runAgentStart(markets, fetchOutcome) ==
  /\ agentPc \in {"idle", "done", "fatal"}
  /\ agentPc' = IF fetchOutcome = "ok" THEN "running" ELSE "fatal"
  /\ agentPairs' = IF fetchOutcome = "ok" THEN allPairs(markets, 1) ELSE << >>
  /\ agentFinished' = {}
  /\ lastTask' = NoTask
  /\ prevRun' = IF agentPc # "done" THEN NoRun
               ELSE [ran |-> TRUE, keys |-> thisRun, tableKeys |-> KeysOf(relTable)]
  /\ thisRun' = {}
  /\ UNCHANGED <<catalog, relTable, probe, pool, pairCall, scan>>

\* one task of runAgent from start to end; pLimit has at most
\* CONCURRENCY_LIMIT tasks in flight, taken from the queue in order
task(i, analystOutcome, raw, relType, storeOutcome) ==
  /\ agentPc = "running"
  /\ i \in DOMAIN agentPairs
  /\ i \notin agentFinished
  /\ i <= Cardinality(agentFinished) + CONCURRENCY_LIMIT
  /\ (raw = NoAnswer) <=> (analystOutcome # "ok")
  /\ (relType = "null") <=> (analystOutcome # "ok" \/ ~classifierParses(raw))
  /\ (relType \notin CheckedTypes) => storeOutcome = "ok"
  /\ LET rel == classifyPair(agentPairs[i][1], agentPairs[i][2], analystOutcome, raw, relType)
         table == upsert(relTable, rel, storeOutcome)
     IN /\ relTable' = IF rel = NoRel THEN relTable ELSE table
        /\ lastTask' = [raw |-> raw, called |-> analystOutcome = "ok",
                        skipped |-> rel = NoRel]
        /\ thisRun' =
             IF rel = NoRel \/ ~upsertOk(rel, storeOutcome) THEN thisRun
             ELSE thisRun \cup {<<rel.market_key_a, rel.market_key_b>>}
  /\ agentFinished' = agentFinished \cup {i}
  /\ UNCHANGED <<catalog, agentPc, agentPairs, prevRun, probe, pool, pairCall, scan>>

\* pLimit resolves: every task has ended
runAgentEnd ==
  /\ agentPc = "running"
  /\ agentFinished = DOMAIN agentPairs
  /\ agentPc' = "done"
  /\ UNCHANGED <<catalog, relTable, agentPairs, agentFinished, lastTask, thisRun, prevRun,
                 probe, pool, pairCall, scan>>

----------------------------------------------------------------------------
\* Classifier: properties

\* C13: every row of market_relationships the classifier stored has
\* market_key_a before market_key_b in the order of strings, whatever the
\* order in which the catalog listed the two markets
C13_CanonicalOrder ==
  \A r \in relTable : LexLess(r.market_key_a, r.market_key_b)

\* the run stored the row of a pair that the catalog listed larger key first
StoredReversed ==
  \E i \in agentFinished :
    /\ LexLess(agentPairs[i][2], agentPairs[i][1])
    /\ <<agentPairs[i][2], agentPairs[i][1]>> \in thisRun
    /\ \E r \in relTable :
         r.market_key_a = agentPairs[i][2] /\ r.market_key_b = agentPairs[i][1]

C13_Witness == agentPc = "running" /\ StoredReversed

OnePerUnorderedPair ==
  \A r1 \in relTable, r2 \in relTable :
    {r1.market_key_a, r1.market_key_b} = {r2.market_key_a, r2.market_key_b} => r1 = r2

\* the unordered pairs of markets behind a set of pair keys
PairsOf(keys) == {{k[1], k[2]} : k \in keys}

\* a run that had a run before it is over
SecondRunOver == agentPc = "done" /\ prevRun.ran

C20_ThreeStrategies ==
  lastTask.called => (lastTask.skipped <=> ~extractJson(lastTask.raw))

\* classifyPair after the response is parsed: the consistency check and the
\* record
\* probabilities and spreads are in tenths of a percentage point

ARBITRAGE_THRESHOLD_PCT == 100
DIVERGENCE_THRESHOLD_PCT == 50

\* probMap[key] ?? null: null, or a probability_pct
PairProbabilities == {NULLN, 0, 200, 250, 251, 300, 301, 800, 900}

\* relationship_type of the parsed response
ParsedTypes == {"equivalent", "mutually_exclusive", "implied", "correlated",
                "implied_conditional"}

\* the keys that play gdp_q1_2026 and demo_gdp_below_20
GDP_LIVE == <<1>>
GDP_DEMO == <<2>>

\* a threshold that is reached, not passed
exceedsOrReaches(spread, threshold) == spread >= threshold

\* probability_spread > threshold
exceeds(spread, threshold) == spread > threshold

\* the consistency check of classifyPair: probability_spread, risk_alert,
\* arbitrage_flag and the justification, which is logic_justification
\* ("J") followed by the arbitrage note ("A") and the GDP note ("G")
consistencyCheck(marketA, marketB, probA, probB, relationship_type) ==
  LET untouched == [probability_spread |-> NULLN, risk_alert |-> "null",
                    arbitrage_flag |-> "null", justification |-> <<"J">>]
      isGdpMismatch == \/ (marketA = GDP_LIVE /\ marketB = GDP_DEMO)
                       \/ (marketB = GDP_LIVE /\ marketA = GDP_DEMO)
  IN IF probA = NULLN \/ probB = NULLN THEN untouched
     ELSE IF relationship_type = "equivalent" THEN
       LET spread == Abs(probA - probB)
       IN [probability_spread |-> spread,
           risk_alert |-> IF exceeds(spread, DIVERGENCE_THRESHOLD_PCT)
                            THEN "VENUE_DIVERGENCE" ELSE "null",
           arbitrage_flag |-> IF exceeds(spread, ARBITRAGE_THRESHOLD_PCT)
                                THEN "HIGH_VALUE_ARBITRAGE_OPPORTUNITY" ELSE "null",
           justification |-> IF ~exceeds(spread, ARBITRAGE_THRESHOLD_PCT) THEN <<"J">>
                             ELSE IF isGdpMismatch THEN <<"J", "A", "G">>
                             ELSE <<"J", "A">>]
     ELSE IF relationship_type = "mutually_exclusive" THEN
       LET spread == Abs((probA + probB) - 1000)
       IN [probability_spread |-> spread,
           risk_alert |-> "null",
           arbitrage_flag |-> IF exceeds(spread, ARBITRAGE_THRESHOLD_PCT)
                                THEN "HIGH_VALUE_ARBITRAGE_OPPORTUNITY" ELSE "null",
           justification |-> IF exceeds(spread, ARBITRAGE_THRESHOLD_PCT)
                               THEN <<"J", "A">> ELSE <<"J">>]
     ELSE untouched

\* the record classifyPair returns
classifyRecord(marketA, marketB, probA, probB, relationship_type) ==
  LET check == consistencyCheck(marketA, marketB, probA, probB, relationship_type)
  IN [market_key_a        |-> sortPair(marketA, marketB)[1],
      market_key_b        |-> sortPair(marketA, marketB)[2],
      relationship_type   |-> relationship_type,
      logic_justification |-> check.justification,
      arbitrage_flag      |-> check.arbitrage_flag,
      risk_alert          |-> check.risk_alert,
      probability_a       |-> probA,
      probability_b       |-> probB,
      probability_spread  |-> check.probability_spread]

\* a task of runAgent is about to call classifyPair(a, b, probA, probB) and
\* the analyst will answer with a response that parses
PairCallInit ==
  /\ pairCall \in {c \in [marketA : MarketKeyUniverse, marketB : MarketKeyUniverse,
                          probA : PairProbabilities, probB : PairProbabilities,
                          relationship_type : ParsedTypes, done : {FALSE},
                          rel : {NoRecord}] : c.marketA # c.marketB}
  /\ catalog = {}
  /\ relTable = {}
  /\ agentPc = "idle"
  /\ agentPairs = << >>
  /\ agentFinished = {}
  /\ lastTask = NoTask
  /\ thisRun = {}
  /\ prevRun = NoRun
  /\ probe = NoProbe
  /\ pool = NoPool
  /\ scan = NoScan

\* classifyPair returns its record
classifyPairReturns ==
  /\ ~pairCall.done
  /\ pairCall' = [pairCall EXCEPT
       !.done = TRUE,
       !.rel = classifyRecord(pairCall.marketA, pairCall.marketB, pairCall.probA,
                              pairCall.probB, pairCall.relationship_type)]
  /\ UNCHANGED <<catalog, relTable, agentPc, agentPairs, agentFinished, lastTask,
                 thisRun, prevRun, probe, pool, scan>>

\* the justification was extended
Extended == pairCall.rel.logic_justification # <<"J">>

\* C32: without both probabilities, and for the types implied and
\* correlated, probability_spread, risk_alert and arbitrage_flag are null;
\* for equivalent the spread is |a - b|, risk_alert is set iff it is above
\* 5 and arbitrage_flag iff it is above 10; for mutually_exclusive the
\* spread is |(a + b) - 100|, arbitrage_flag is set iff it is above 10 and
\* risk_alert is null; the justification is extended exactly when
\* arbitrage_flag is set
C32_ConsistencyCheck ==
  pairCall.done =>
    LET c == pairCall
        r == pairCall.rel
    IN /\ (c.probA = NULLN \/ c.probB = NULLN
             \/ c.relationship_type \in {"implied", "correlated"})
            => /\ r.probability_spread = NULLN
               /\ r.risk_alert = "null"
               /\ r.arbitrage_flag = "null"
       /\ (c.probA # NULLN /\ c.probB # NULLN /\ c.relationship_type = "equivalent")
            => /\ r.probability_spread = Abs(c.probA - c.probB)
               /\ (r.risk_alert # "null") <=> (r.probability_spread > 50)
               /\ (r.arbitrage_flag # "null") <=> (r.probability_spread > 100)
       /\ (c.probA # NULLN /\ c.probB # NULLN /\ c.relationship_type = "mutually_exclusive")
            => /\ r.probability_spread = Abs((c.probA + c.probB) - 1000)
               /\ (r.arbitrage_flag # "null") <=> (r.probability_spread > 100)
               /\ r.risk_alert = "null"
       /\ Extended <=> (r.arbitrage_flag # "null")

\* an equivalent pair whose spread is exactly 10 points: the alert is set,
\* the arbitrage flag is not, the justification is as the analyst gave it
C32_Witness ==
  /\ pairCall.done
  /\ pairCall.relationship_type = "equivalent"
  /\ pairCall.rel.probability_spread = 100
  /\ pairCall.rel.risk_alert # "null"
  /\ pairCall.rel.arbitrage_flag = "null"
  /\ ~Extended

\* the probability snapshotted for the market of a key of the pair
SnapshotOf(key) == IF key = pairCall.marketA THEN pairCall.probA ELSE pairCall.probB

\* C36: probability_a of the record is the probability snapshotted for the
\* market stored as market_key_a, probability_b that of the market stored
\* as market_key_b, also when the sort exchanged the two keys
C36_ProbabilitiesFollowKeys ==
  pairCall.done =>
    /\ pairCall.rel.probability_a = SnapshotOf(pairCall.rel.market_key_a)
    /\ pairCall.rel.probability_b = SnapshotOf(pairCall.rel.market_key_b)

\* pLimit(limit, tasks): the queue and the workers

\* largest number of tasks handed to pLimit
MaxTasks == 7

\* what a worker does: it is at the head of its while loop, it has
\* returned, or it awaits the task of this number
READY == 0
RETURNED == -1

\* a pool without workers
workersUnbounded(limit, n) == 1..n

\* Array.from({ length: Math.min(limit, tasks.length) }, worker)
workers(limit, n) == 1..(IF limit <= n THEN limit ELSE n)

\* pLimit is called with n tasks: queue = [...tasks], the workers are created
PoolInit ==
  /\ \E n \in 0..MaxTasks :
       pool = [queue |-> [i \in 1..n |-> i],
               running |-> [w \in workers(CONCURRENCY_LIMIT, n) |-> READY],
               started |-> << >>, settled |-> {}]
  /\ catalog = {}
  /\ relTable = {}
  /\ agentPc = "idle"
  /\ agentPairs = << >>
  /\ agentFinished = {}
  /\ lastTask = NoTask
  /\ thisRun = {}
  /\ prevRun = NoRun
  /\ probe = NoProbe
  /\ pairCall = NoPairCall
  /\ scan = NoScan

\* worker: queue.length > 0, task = queue.shift(), task() is called
workerShift(w) ==
  /\ w \in DOMAIN pool.running
  /\ pool.running[w] = READY
  /\ pool.queue # << >>
  /\ pool' = [pool EXCEPT !.queue = Tail(@),
                          !.running[w] = Head(pool.queue),
                          !.started = Append(@, Head(pool.queue))]
  /\ UNCHANGED <<catalog, relTable, agentPc, agentPairs, agentFinished, lastTask,
                 thisRun, prevRun, probe, pairCall, scan>>

\* worker: await task() resolves, or rejects and the catch logs the error;
\* the worker is back at the head of its loop
taskSettles(w, outcome) ==
  /\ w \in DOMAIN pool.running
  /\ pool.running[w] > 0
  /\ outcome \in {"resolved", "rejected"}
  /\ pool' = [pool EXCEPT !.running[w] = READY,
                          !.settled = @ \cup {pool.running[w]}]
  /\ UNCHANGED <<catalog, relTable, agentPc, agentPairs, agentFinished, lastTask,
                 thisRun, prevRun, probe, pairCall, scan>>

\* worker: queue.length is 0, the worker returns
workerReturn(w) ==
  /\ w \in DOMAIN pool.running
  /\ pool.running[w] = READY
  /\ pool.queue = << >>
  /\ pool' = [pool EXCEPT !.running[w] = RETURNED]
  /\ UNCHANGED <<catalog, relTable, agentPc, agentPairs, agentFinished, lastTask,
                 thisRun, prevRun, probe, pairCall, scan>>

\* the tasks in flight
InFlight == {w \in DOMAIN pool.running : pool.running[w] > 0}

\* C33: at most CONCURRENCY_LIMIT tasks are in flight at any time, and no
\* task is started more than once by the workers that share the queue
C33_AtMostFiveInFlightEachOnce ==
  /\ Cardinality(InFlight) <= CONCURRENCY_LIMIT
  /\ \A i \in DOMAIN pool.started, j \in DOMAIN pool.started :
       i # j => pool.started[i] # pool.started[j]

\* five tasks are in flight, tasks wait in the queue, and a worker has
\* already gone on from one task to the next
C33_Witness ==
  /\ Cardinality(InFlight) = CONCURRENCY_LIMIT
  /\ pool.queue # << >>
  /\ pool.settled # {}

\* the price lookups of the classifier, the scenario engine and the scanner

\* a catalog row and a quote table; no row is stored under the empty id
LookupInit ==
  /\ probe \in [market : [market_key : {"demo_fed_hold_v1", "live_only"},
                          polymarket_token_id : TokenIds, kalshi_ticker : TickerIds],
                signals : {f \in [SignalIds -> QuoteLists] :
                             f[""] = << >> /\ f["DEMO-ticker"] \in {<< >>, <<40>>}},
                done : {FALSE}, classifier : {NULLN}, engine : {NULLN}, scanner : {NULLN}]
  /\ catalog = {}
  /\ relTable = {}
  /\ agentPc = "idle"
  /\ agentPairs = << >>
  /\ agentFinished = {}
  /\ lastTask = NoTask
  /\ thisRun = {}
  /\ prevRun = NoRun
  /\ pool = NoPool
  /\ pairCall = NoPairCall
  /\ scan = NoScan

\* a text column is truthy: neither NULL nor empty
truthyText(id) == id # NULLV /\ id # ""

\* latestByEventId[id]: the loop keeps the first probability_pct that is not
\* null among the rows of the id, newest first
RECURSIVE latestByEventId(_)
latestByEventId(rows) ==
  IF rows = << >> THEN NULLN
  ELSE IF Head(rows) # NULLN THEN Head(rows)
  ELSE latestByEventId(Tail(rows))

\* fetchLiveProbabilities(markets)[market_key] of the classifier: tickers
\* that start with DEMO- are left out of the query
fetchLiveProbabilities(market, signals) ==
  LET poly == market.polymarket_token_id
      kalshi == market.kalshi_ticker
      latestPoly == IF truthyText(poly) THEN latestByEventId(signals[poly]) ELSE NULLN
      latestKalshi == IF truthyText(kalshi) /\ kalshi # "DEMO-ticker"
                        THEN latestByEventId(signals[kalshi]) ELSE NULLN
  IN IF truthyText(poly) /\ latestPoly # NULLN THEN latestPoly
     ELSE IF truthyText(kalshi) /\ latestKalshi # NULLN THEN latestKalshi
     ELSE NULLN

\* probMap[a.market_key] ?? null with probMap = { ...DEMO_PROBS, ...liveProbMap }
probMap(market, signals) ==
  IF fetchLiveProbabilities(market, signals) # NULLN
    THEN fetchLiveProbabilities(market, signals)
    ELSE DEMO_PROBS(market.market_key)

\* priceMap[m.market_key] of loadMarketGraph: the query has no filter on ids
priceMap(market, signals) ==
  LET poly == market.polymarket_token_id
      kalshi == market.kalshi_ticker
  IN IF truthyText(poly) /\ latestByEventId(signals[poly]) # NULLN
       THEN latestByEventId(signals[poly])
     ELSE IF truthyText(kalshi) /\ latestByEventId(signals[kalshi]) # NULLN
       THEN latestByEventId(signals[kalshi])
     ELSE DEMO_PROBS(market.market_key)

\* fetchMetadataMap of the scanner for one row:
\* polymarket_token_id ?? kalshi_ticker ?? null, kept when truthy
metadataMapOf(market) ==
  LET eventId == IF market.polymarket_token_id # NULLV THEN market.polymarket_token_id
                 ELSE market.kalshi_ticker
  IN [k \in {market.market_key} |-> IF truthyText(eventId) THEN eventId ELSE NULLV]

\* fetchLatestSignals of the scanner: the first row of each id
latestSignalsOf(signals) ==
  [e \in SignalIds |->
     IF signals[e] = << >> THEN NoSignal
     ELSE [probability_pct |-> Head(signals[e]), liquidity_depth_usd |-> 0,
           present |-> TRUE]]

\* the three components resolve the probability of the row
Resolve ==
  /\ ~probe.done
  /\ probe' = [probe EXCEPT
       !.done = TRUE,
       !.classifier = probMap(probe.market, probe.signals),
       !.engine = priceMap(probe.market, probe.signals),
       !.scanner = resolveSignal(probe.market.market_key, metadataMapOf(probe.market),
                                 latestSignalsOf(probe.signals)).probability_pct]
  /\ UNCHANGED <<catalog, relTable, agentPc, agentPairs, agentFinished, lastTask,
                 thisRun, prevRun, pool, pairCall, scan>>

\* the latest live quote under an identifier of the row, NULLN without one
LiveQuote(id) == IF truthyText(id) THEN latestByEventId(probe.signals[id]) ELSE NULLN

\* the probability the priority rule gives the row
ByPriority ==
  IF LiveQuote(probe.market.polymarket_token_id) # NULLN
    THEN LiveQuote(probe.market.polymarket_token_id)
  ELSE IF LiveQuote(probe.market.kalshi_ticker) # NULLN
    THEN LiveQuote(probe.market.kalshi_ticker)
  ELSE DEMO_PROBS(probe.market.market_key)

\* C21: the classifier, the scenario engine and the scanner resolve the same
\* probability for a catalog row: the latest live quote under its venue-A
\* identifier, else under its venue-B identifier, else the demo value, else
\* none
C21_SamePriceLookup ==
  probe.done =>
    /\ probe.classifier = ByPriority
    /\ probe.engine = ByPriority
    /\ probe.scanner = ByPriority

\* the latest quote per event id, as the three components fetch it

\* largest number of rows in market_signals
MaxQuoteRows == 4

\* the row limit of the three queries: .limit(1000) in the source, scaled
\* so that the tables here can exceed it by one row
QueryLimit == 3

\* rows of market_signals: event_id and probability_pct
QuoteRows ==
  { [event_id |-> "token_a", probability_pct |-> 40],
    [event_id |-> "token_a", probability_pct |-> 60],
    [event_id |-> "token_a", probability_pct |-> NULLN],
    [event_id |-> "ticker_b", probability_pct |-> 60],
    [event_id |-> STRAY, probability_pct |-> 40] }

\* the table, newest row first, when a component reads it
ScanInit ==
  /\ \E n \in 0..MaxQuoteRows :
       scan \in [table : [1..n -> QuoteRows], outcome : {"ok", "error"}, done : {FALSE},
                 scanner : {[e \in CatalogIds |-> NULLN]},
                 classifier : {[e \in CatalogIds |-> NULLN]},
                 engine : {[e \in CatalogIds |-> NULLN]}]
  /\ catalog = {}
  /\ relTable = {}
  /\ agentPc = "idle"
  /\ agentPairs = << >>
  /\ agentFinished = {}
  /\ lastTask = NoTask
  /\ thisRun = {}
  /\ prevRun = NoRun
  /\ probe = NoProbe
  /\ pool = NoPool
  /\ pairCall = NoPairCall

\* a query without a row limit
limitNone(rows, n) == rows

\* .limit(n)
limit(rows, n) == SubSeq(rows, 1, IF n <= Len(rows) THEN n ELSE Len(rows))

\* .in('event_id', ids)
inEventIds(rows, ids) == SelectSeq(rows, LAMBDA r : r.event_id \in ids)

\* probability_pct of the rows of one event id, in the order of the data
probabilitiesOf(data, e) ==
  LET rows == SelectSeq(data, LAMBDA r : r.event_id = e)
  IN [i \in 1..Len(rows) |-> rows[i].probability_pct]

\* fetchLatestSignals(eventIds)[e].probability_pct of the scanner: the
\* first row of e in the data, NULLN when there is none or the query failed
scannerLatest(table, outcome, e) ==
  LET data == limit(inEventIds(table, CatalogIds), QueryLimit)
  IN IF outcome # "ok" \/ probabilitiesOf(data, e) = << >> THEN NULLN
     ELSE Head(probabilitiesOf(data, e))

\* latestByEventId[e] of fetchLiveProbabilities
classifierLatest(table, outcome, e) ==
  LET data == limit(inEventIds(table, CatalogIds), QueryLimit)
  IN IF outcome # "ok" THEN NULLN ELSE latestByEventId(probabilitiesOf(data, e))

\* latestByEventId[e] of loadMarketGraph: the query names no event ids
engineLatest(table, outcome, e) ==
  LET data == limit(table, QueryLimit)
  IN IF outcome # "ok" THEN NULLN ELSE latestByEventId(probabilitiesOf(data, e))

\* the three components read the table
ScanTable ==
  /\ ~scan.done
  /\ scan' = [scan EXCEPT
       !.done = TRUE,
       !.scanner = [e \in CatalogIds |-> scannerLatest(scan.table, scan.outcome, e)],
       !.classifier = [e \in CatalogIds |-> classifierLatest(scan.table, scan.outcome, e)],
       !.engine = [e \in CatalogIds |-> engineLatest(scan.table, scan.outcome, e)]]
  /\ UNCHANGED <<catalog, relTable, agentPc, agentPairs, agentFinished, lastTask,
                 thisRun, prevRun, probe, pool, pairCall>>

\* the rows stored for an event id, newest first
StoredFor(e) == SelectSeq(scan.table, LAMBDA r : r.event_id = e)

\* C31: when the three components have read the table, the signal each of
\* them uses for an event id that has a stored quote is the most recent
\* quote stored for it, and never none (stated for event ids whose most
\* recent row carries a probability, and for queries that succeed)
C31_LatestQuotePerIdentifier ==
  \A e \in CatalogIds :
    (scan.done /\ scan.outcome = "ok" /\ StoredFor(e) # << >>
       /\ Head(StoredFor(e)).probability_pct # NULLN)
      => /\ scan.scanner[e] = Head(StoredFor(e)).probability_pct
         /\ scan.classifier[e] = Head(StoredFor(e)).probability_pct
         /\ scan.engine[e] = Head(StoredFor(e)).probability_pct

----------------------------------------------------------------------------
\* Aggregator: normalizers and the confidence score (aggregator.js)

\* quotes handed to the inserter in one behaviour
MaxQuotes == 2

\* Numbers are fixed-point: prices, sizes and cents in units of 1/10000,
\* spreads in tenths of a percentage point, scores in tenths of a point
\* before rounding.  The inputs are chosen so that every division is exact.
ONE == 10000

\* a JavaScript value: a number, NaN, null, a missing field, a text that
\* is not a number
Num(v) == [k |-> "num", v |-> v]
NaN == [k |-> "nan", v |-> 0]
NULL == [k |-> "null", v |-> 0]
MISSING == [k |-> "missing", v |-> 0]
TEXT == [k |-> "text", v |-> 0]

Max(a, b) == IF a >= b THEN a ELSE b

\* parseFloat(x)
parseFloat(x) == IF x.k = "num" THEN x ELSE NaN

\* x ?? 0
orZero(x) == IF x.k \in {"missing", "null"} THEN Num(0) ELSE x

\* the value is truthy (numbers only: 0 and NaN are falsy)
truthy(x) == x.k = "num" /\ x.v # 0

\* normProb without its clamps
normProbUnclamped(raw) ==
  IF parseFloat(raw).k = "nan" THEN Num(0) ELSE parseFloat(raw)

\* normProb(raw)
normProb(raw) ==
  LET n == parseFloat(raw)
  IN IF n.k = "nan" THEN Num(0)
     ELSE IF n.v > ONE THEN Num(Min(n.v \div 100, ONE))
     ELSE Num(Max(0, Min(n.v, ONE)))

\* x * 100
times100(x) == IF x.k = "num" THEN Num(x.v * 100) ELSE NaN

\* Math.log10(depth) * 10 for the depths of DepthValues, in whole points
log10Times10(depth) ==
  CASE depth = 1 -> 0
    [] depth = 1000 -> 30
    [] depth = 10000000 -> 70

\* Math.round of a value in tenths
round(tenths) == (tenths + 5) \div 10

\* calculateUnifiedConfidence(depth, spreadPct): depth is a number or NaN,
\* spreadPct a number, NaN or null
calculateUnifiedConfidence(depth, spreadPct) ==
  LET depthScore == IF depth.k = "num" /\ depth.v > 0
                      THEN Min(log10Times10(depth.v) * 10, 600) ELSE 0
  IN IF spreadPct.k = "null" THEN Num(round(Min(Max(depthScore + 200, 0), 1000)))
     ELSE IF spreadPct.k = "nan" THEN NaN
     ELSE Num(round(Min(Max(depthScore + Max(0, 400 - spreadPct.v * 2), 0), 1000)))

\* liquidity_score < 50 ? 'LOW_CONFIDENCE' : null  (NaN < 50 is false)
confidenceFlag(score) ==
  IF score.k = "num" /\ score.v < 50 THEN "LOW_CONFIDENCE" ELSE "null"

\* asset ids (venue A) and market tickers (venue B) the sessions subscribe to
Assets == {"X", "Y"}
\* the id of a frame that names no asset
NOASSET == "none"

\* an entry of marketStateCache that was never set
NoPolyState == [set |-> FALSE, depth |-> Num(0), bestBid |-> Num(0), bestAsk |-> Num(0)]
NoKalshiState ==
  [set |-> FALSE, yesBid |-> Num(0), yesAsk |-> Num(0), spread |-> Num(0), volume |-> NULL]

\* best bid and best ask of a book frame: no levels, a 10 % spread, a 10.5 %
\* spread, a 1 % spread, a bid that is not a number, a crossed book
BookTops ==
  { <<Num(0), Num(0)>>, <<Num(3800), Num(4200)>>, <<Num(3790), Num(4210)>>,
    <<Num(3980), Num(4020)>>, <<NaN, Num(4200)>>, <<Num(4200), Num(3800)>> }

\* the ladder of a book frame whose only level has the given price
ladderOf(top) == IF top = Num(0) THEN << >> ELSE <<top>>

\* bid and ask ladders (the prices of their levels) of a book frame: best
\* level first, best level last, one side empty
BookLadders ==
  { << <<Num(6000), Num(5800)>>, <<Num(6500), Num(6700)>> >>,
    << <<Num(5800), Num(6000)>>, <<Num(6700), Num(6500)>> >>,
    << << >>, <<Num(6500)>> >> }

\* results of computePolymarketBookDepth for a book with a mid price, in USD
DepthValues == {NaN, Num(1), Num(1000), Num(10000000)}

\* price fields of a frame: missing, not a number, negative, zero, a
\* fraction, 1, above 1, cents, above 100
RawPrices ==
  { MISSING, TEXT, Num(-5000), Num(0), Num(2500), Num(ONE), Num(15000),
    Num(650000), Num(1500000) }

\* best_bid / best_ask of a Polymarket price frame
RawQuotes == { <<MISSING, MISSING>>, <<Num(6000), Num(7000)>>, <<TEXT, Num(7000)>> }

\* yes_bid / yes_ask of a Kalshi ticker frame, in cents
RawTickers ==
  { <<MISSING, MISSING>>, <<Num(380000), Num(420000)>>, <<Num(400000), Num(400000)>>,
    <<Num(630000), TEXT>>, <<TEXT, TEXT>>, <<Num(0), Num(650000)>>,
    <<Num(1500000), Num(2500000)>> }

\* size, count and volume fields
RawSizes == { MISSING, TEXT, Num(100000) }

TakerSides == {"yes", "no", "missing", "number"}

\* timestamp / ts fields: missing, epoch milliseconds, a text that is no date
RawTimes == { MISSING, Num(1), TEXT }

NoQuote ==
  [platform |-> "none", event_id |-> NOASSET, price |-> Num(0),
   probability_pct |-> Num(0), liquidity_score |-> Num(0), confidence_flag |-> "null",
   liquidity_depth_usd |-> Num(0), bid_ask_spread_pct |-> NULL, volume_24h |-> NULL,
   raw |-> MISSING]

\* no frame has arrived (bids / asks: the ladders of a book message, the
\* best_bid / best_ask of a venue-A trade message; price: the message's own
\* price)
NoFrame ==
  [venue |-> "none", type |-> "none", asset |-> NOASSET, threw |-> FALSE,
   bids |-> << >>, asks |-> << >>, price |-> MISSING]

\* the aggregator has started: the cache is empty, no quote was enqueued
QuotesInit ==
  /\ marketStateCache = [polymarket |-> [a \in Assets |-> NoPolyState],
                         kalshi |-> [a \in Assets |-> NoKalshiState]]
  /\ lastUpdate = [polymarket |-> [a \in Assets |-> NoPolyState],
                   kalshi |-> [a \in Assets |-> NoKalshiState]]
  /\ lastQuote = NoQuote
  /\ lastFrame = NoFrame

\* marketStateCache.get(key) ?? {} read under one key for every asset
cacheGetShared(entries, asset, none) == entries["X"]

\* marketStateCache.get(msg.asset_id ?? msg.market) ?? {}
cacheGet(entries, asset, none) == IF asset \in Assets THEN entries[asset] ELSE none

\* new Date(ts).toISOString() throws a RangeError on an invalid date; the
\* field is read only when it is truthy
toISOStringThrows(ts) == ts.k = "text"

\* ((cachedAsk - cachedBid) / ((cachedAsk + cachedBid) / 2)) * 100, in tenths
relativeSpread(bid, ask) == Num(((ask.v - bid.v) * 2000) \div (ask.v + bid.v))

\* normalizePolymarketTrade(msg): the record it returns
normalizePolymarketTrade(asset, rawBid, rawAsk, rawPrice, state) ==
  LET bid == parseFloat(orZero(rawBid))
      ask == parseFloat(orZero(rawAsk))
      mid == IF truthy(bid) /\ truthy(ask) THEN Num((bid.v + ask.v) \div 2) ELSE Num(0)
      price == normProb(IF truthy(mid) THEN mid ELSE rawPrice)
      liquidity_depth_usd == state.depth
      bid_ask_spread_pct ==
        IF truthy(state.bestBid) /\ truthy(state.bestAsk)
          THEN relativeSpread(state.bestBid, state.bestAsk) ELSE NULL
      liquidity_score == calculateUnifiedConfidence(liquidity_depth_usd, bid_ask_spread_pct)
  IN [platform |-> "polymarket", event_id |-> asset,
      price |-> price, probability_pct |-> times100(price),
      liquidity_score |-> liquidity_score,
      confidence_flag |-> confidenceFlag(liquidity_score),
      liquidity_depth_usd |-> liquidity_depth_usd,
      bid_ask_spread_pct |-> bid_ask_spread_pct,
      volume_24h |-> NULL,
      raw |-> IF truthy(mid) THEN mid ELSE rawPrice]

\* Polymarket ws.on('message'), a trade / last_trade_price / price_change /
\* best_bid_ask event: a timestamp that is no date makes toISOString throw,
\* which the handler logs; else the record is enqueued when its price is
\* positive
PolymarketTrade(asset, rawBid, rawAsk, rawPrice, timestamp) ==
  /\ nextId <= MaxQuotes
  /\ LET record == normalizePolymarketTrade(asset, rawBid, rawAsk, rawPrice,
                     cacheGet(marketStateCache.polymarket, asset, NoPolyState))
     IN IF ~toISOStringThrows(timestamp) /\ record.price.v > 0
          THEN /\ EnqueueRecord(ANON)
               /\ lastQuote' = record
          ELSE /\ lastQuote' = NoQuote
               /\ UNCHANGED bwVars
  /\ lastFrame' = [venue |-> "polymarket", type |-> "trade", asset |-> asset,
                   threw |-> toISOStringThrows(timestamp),
                   bids |-> <<rawBid>>, asks |-> <<rawAsk>>, price |-> rawPrice]
  /\ UNCHANGED <<marketStateCache, lastUpdate>>

\* bids.length > 0 ? parseFloat(bids[0].price ?? bids[0][0]) : 0
firstLevel(ladder) == IF Len(ladder) > 0 THEN parseFloat(ladder[1]) ELSE Num(0)

\* Polymarket ws.on('message'), a book / book_snapshot event: the entry of
\* the asset is set when the frame names one
PolymarketBook(asset, bids, asks, depthOfBook) ==
  /\ LET bestBid == firstLevel(bids)
         bestAsk == firstLevel(asks)
         entry == [set |-> TRUE,
                   depth |-> IF truthy(bestBid) /\ truthy(bestAsk)
                               THEN depthOfBook ELSE Num(0),
                   bestBid |-> bestBid, bestAsk |-> bestAsk]
     IN IF asset \in Assets
          THEN /\ marketStateCache' = [marketStateCache EXCEPT !.polymarket[asset] = entry]
               /\ lastUpdate' = [lastUpdate EXCEPT !.polymarket[asset] = entry]
          ELSE UNCHANGED <<marketStateCache, lastUpdate>>
  /\ lastQuote' = NoQuote
  /\ lastFrame' = [venue |-> "polymarket", type |-> "book", asset |-> asset,
                   threw |-> FALSE, bids |-> bids, asks |-> asks, price |-> MISSING]
  /\ UNCHANGED bwVars

\* yesAsk - yesBid clamped below by Math.max(.., 0); NaN when a side is NaN
tickerSpread(yesBid, yesAsk) ==
  IF yesBid.k = "nan" \/ yesAsk.k = "nan" THEN NaN ELSE Num(Max(yesAsk.v - yesBid.v, 0))

\* (spread / mid) * 100, in tenths
spreadOverMid(spread, mid) ==
  IF spread.k = "nan" THEN NaN ELSE Num((spread.v * 1000) \div mid.v)

\* normalizeKalshiTicker(data): the record it returns
normalizeKalshiTicker(asset, rawBid, rawAsk, rawVolume) ==
  LET yesBid == parseFloat(orZero(rawBid))
      yesAsk == parseFloat(orZero(rawAsk))
      mid == IF truthy(yesBid) /\ truthy(yesAsk) THEN Num((yesBid.v + yesAsk.v) \div 2)
             ELSE IF truthy(yesBid) THEN yesBid ELSE yesAsk
      spread == tickerSpread(yesBid, yesAsk)
      bid_ask_spread_pct ==
        IF mid.k = "num" /\ mid.v > 0 THEN spreadOverMid(spread, mid) ELSE NULL
      liquidity_score == calculateUnifiedConfidence(Num(0), bid_ask_spread_pct)
  IN [platform |-> "kalshi", event_id |-> asset, price |-> normProb(mid),
      probability_pct |-> times100(normProb(mid)),
      liquidity_score |-> liquidity_score,
      confidence_flag |-> confidenceFlag(liquidity_score),
      liquidity_depth_usd |-> Num(0),
      bid_ask_spread_pct |-> bid_ask_spread_pct,
      volume_24h |-> parseFloat(orZero(rawVolume)),
      raw |-> mid]

\* Kalshi ws.on('message'), a ticker frame: normalizeKalshiTicker sets the
\* cache entry and then builds the record; a ts that is no date makes
\* toISOString throw there, which the handler logs; else the record is
\* enqueued
KalshiTicker(asset, rawBid, rawAsk, rawVolume, ts) ==
  /\ nextId <= MaxQuotes
  /\ LET entry == [set |-> TRUE, yesBid |-> parseFloat(orZero(rawBid)),
                   yesAsk |-> parseFloat(orZero(rawAsk)),
                   spread |-> tickerSpread(parseFloat(orZero(rawBid)),
                                           parseFloat(orZero(rawAsk))),
                   volume |-> parseFloat(orZero(rawVolume))]
     IN /\ marketStateCache' = [marketStateCache EXCEPT !.kalshi[asset] = entry]
        /\ lastUpdate' = [lastUpdate EXCEPT !.kalshi[asset] = entry]
  /\ IF toISOStringThrows(ts)
       THEN /\ lastQuote' = NoQuote
            /\ UNCHANGED bwVars
       ELSE /\ EnqueueRecord(ANON)
            /\ lastQuote' = normalizeKalshiTicker(asset, rawBid, rawAsk, rawVolume)
  /\ lastFrame' = [venue |-> "kalshi", type |-> "ticker", asset |-> asset,
                   threw |-> toISOStringThrows(ts),
                   bids |-> << >>, asks |-> << >>, price |-> MISSING]

\* normalizeKalshiTrade(data): the record it returns
normalizeKalshiTrade(asset, takerSide, yesPrice, noPrice, state) ==
  LET rawPrice == IF takerSide \in {"yes", "missing"} THEN yesPrice ELSE noPrice
      cachedMid == IF truthy(state.yesBid) /\ truthy(state.yesAsk)
                     THEN Num((state.yesBid.v + state.yesAsk.v) \div 2) ELSE Num(0)
      bid_ask_spread_pct ==
        IF state.set /\ cachedMid.v > 0 THEN spreadOverMid(state.spread, cachedMid)
        ELSE NULL
      liquidity_score == calculateUnifiedConfidence(Num(0), bid_ask_spread_pct)
  IN [platform |-> "kalshi", event_id |-> asset, price |-> normProb(rawPrice),
      probability_pct |-> times100(normProb(rawPrice)),
      liquidity_score |-> liquidity_score,
      confidence_flag |-> confidenceFlag(liquidity_score),
      liquidity_depth_usd |-> Num(0),
      bid_ask_spread_pct |-> bid_ask_spread_pct,
      volume_24h |-> state.volume,
      raw |-> rawPrice]

\* Kalshi ws.on('message'), a trade frame: a taker_side that is not a string
\* makes toLowerCase throw, which the handler logs; else the record is
\* enqueued when its size or its price is positive
KalshiTrade(asset, takerSide, yesPrice, noPrice, count) ==
  /\ nextId <= MaxQuotes
  /\ LET record == normalizeKalshiTrade(asset, takerSide, yesPrice, noPrice,
                     cacheGet(marketStateCache.kalshi, asset, NoKalshiState))
         size == parseFloat(orZero(count))
     IN /\ IF takerSide # "number" /\ ((size.k = "num" /\ size.v > 0) \/ record.price.v > 0)
             THEN /\ EnqueueRecord(ANON)
                  /\ lastQuote' = record
             ELSE /\ lastQuote' = NoQuote
                  /\ UNCHANGED bwVars
        /\ lastFrame' = [venue |-> "kalshi", type |-> "trade", asset |-> asset,
                         threw |-> takerSide = "number",
                         bids |-> << >>, asks |-> << >>, price |-> record.raw]
  /\ UNCHANGED <<marketStateCache, lastUpdate>>

\* ws.on('message') of either session, a frame that JSON.parse rejects: the
\* handler warns and returns
NonJsonFrame(v) ==
  /\ lastFrame' = [venue |-> v, type |-> "nonjson", asset |-> NOASSET,
                   threw |-> TRUE, bids |-> << >>, asks |-> << >>, price |-> MISSING]
  /\ lastQuote' = NoQuote
  /\ UNCHANGED <<marketStateCache, lastUpdate>>
  /\ UNCHANGED bwVars

qVars == <<marketStateCache, lastQuote, lastFrame, lastUpdate>>

----------------------------------------------------------------------------
\* Normalizers: properties

\* C15: every quote handed to the inserter has a price between 0 and 1 and
\* a probability_pct of 100 times its price, whatever the raw value was
C15_PriceInUnitRange ==
  lastQuote # NoQuote =>
    /\ lastQuote.price.k = "num"
    /\ 0 <= lastQuote.price.v /\ lastQuote.price.v <= ONE
    /\ lastQuote.probability_pct.k = "num"
    /\ lastQuote.probability_pct.v = 100 * lastQuote.price.v

\* a quote was enqueued whose raw price is above 100
C15_Witness ==
  /\ lastQuote # NoQuote
  /\ lastQuote.raw.k = "num"
  /\ lastQuote.raw.v > 100 * ONE
  /\ lastQuote.price.v = ONE

\* C16: every quote handed to the inserter has a confidence score between 0
\* and 100, and carries the low-confidence flag exactly when its score is
\* below 50
C16_ScoreRangeAndFlag ==
  lastQuote # NoQuote =>
    /\ lastQuote.liquidity_score.k = "num"
    /\ 0 <= lastQuote.liquidity_score.v /\ lastQuote.liquidity_score.v <= 100
    /\ (lastQuote.confidence_flag = "LOW_CONFIDENCE") <=> (lastQuote.liquidity_score.v < 50)

\* C22: a message that is dropped as malformed (a frame that is not JSON, a
\* message whose normalization throws) leaves the connections, the
\* microstructure cache and the inserter's queue and inserts as they were,
\* and the process running
C22_MalformedFrameDropped ==
  [][(lastFrame' # lastFrame /\ lastFrame'.threw)
       => /\ conn' = conn
          /\ bwPc' = bwPc
          /\ marketStateCache' = marketStateCache
          /\ queue' = queue /\ inflight' = inflight /\ enqueued' = enqueued]_vars

\* C27: the quote of a trade message on asset X carries the depth, spread
\* and volume of the latest book / ticker frame of X, and zero depth and
\* null spread when X had none
C27_EnrichedFromLatestUpdate ==
  (lastFrame.type = "trade" /\ lastQuote # NoQuote) =>
    IF lastFrame.venue = "polymarket"
      THEN LET u == lastUpdate.polymarket[lastFrame.asset]
           IN /\ lastQuote.liquidity_depth_usd = u.depth
              /\ lastQuote.bid_ask_spread_pct =
                   IF truthy(u.bestBid) /\ truthy(u.bestAsk)
                     THEN relativeSpread(u.bestBid, u.bestAsk) ELSE NULL
              /\ ~u.set => /\ lastQuote.liquidity_depth_usd = Num(0)
                           /\ lastQuote.bid_ask_spread_pct = NULL
      ELSE LET u == lastUpdate.kalshi[lastFrame.asset]
           IN /\ lastQuote.volume_24h = u.volume
              /\ lastQuote.bid_ask_spread_pct =
                   IF truthy(u.yesBid) /\ truthy(u.yesAsk)
                     THEN spreadOverMid(u.spread, Num((u.yesBid.v + u.yesAsk.v) \div 2))
                     ELSE NULL
              /\ ~u.set => /\ lastQuote.liquidity_depth_usd = Num(0)
                           /\ lastQuote.bid_ask_spread_pct = NULL

\* a trade on Y is enriched from Y's book while X holds another book
C27_Witness ==
  /\ lastFrame.venue = "polymarket" /\ lastFrame.type = "trade" /\ lastFrame.asset = "Y"
  /\ lastQuote # NoQuote
  /\ lastUpdate.polymarket["Y"].set
  /\ lastUpdate.polymarket["X"].set
  /\ lastUpdate.polymarket["X"].bestBid # lastUpdate.polymarket["Y"].bestBid
  /\ lastQuote.bid_ask_spread_pct # NULL

\* C28: on venue A, a trade message on an asset whose latest book frame gave
\* both a best bid and a best ask is quoted at the mid of those; a message
\* that carries no quote of its own, on an asset without such a book, is
\* quoted at its own price, and skipped when it has none
C28_MidOfBookPreferred ==
  (lastFrame.venue = "polymarket" /\ lastFrame.type = "trade" /\ ~lastFrame.threw) =>
    LET u == lastUpdate.polymarket[lastFrame.asset]
        own == parseFloat(lastFrame.price)
    IN IF truthy(u.bestBid) /\ truthy(u.bestAsk)
         THEN /\ lastQuote # NoQuote
              /\ lastQuote.price = normProb(Num((u.bestBid.v + u.bestAsk.v) \div 2))
         ELSE (lastFrame.bids = <<MISSING>> /\ lastFrame.asks = <<MISSING>>) =>
                IF own.k = "num" /\ own.v > 0
                  THEN lastQuote # NoQuote /\ lastQuote.price = normProb(own)
                  ELSE lastQuote = NoQuote

\* C29: a venue-B trade message whose taker-side price is c cents, with
\* 1 <= c <= 99, is quoted at price c / 100 and probability_pct c
C29_CentsToProbability ==
  (/\ lastFrame.venue = "kalshi" /\ lastFrame.type = "trade" /\ ~lastFrame.threw
   /\ lastFrame.price.k = "num"
   /\ ONE <= lastFrame.price.v /\ lastFrame.price.v <= 99 * ONE)
    => /\ lastQuote # NoQuote
       /\ lastQuote.price.k = "num"
       /\ lastQuote.price.v * 100 = lastFrame.price.v
       /\ lastQuote.probability_pct = Num(lastFrame.price.v)

\* the highest / the lowest price of a ladder of numbers
highest(ladder) == CHOOSE x \in Range(ladder) : \A y \in Range(ladder) : x.v >= y.v
lowest(ladder) == CHOOSE x \in Range(ladder) : \A y \in Range(ladder) : x.v <= y.v

\* C30: after a book message the cached best bid is the highest bid level
\* and the cached best ask the lowest ask level, whatever the order of the
\* levels (0 for an empty ladder)
C30_BestOfLadder ==
  (lastFrame.type = "book" /\ lastFrame.asset \in Assets) =>
    LET entry == marketStateCache.polymarket[lastFrame.asset]
    IN /\ entry.bestBid = IF lastFrame.bids = << >> THEN Num(0) ELSE highest(lastFrame.bids)
       /\ entry.bestAsk = IF lastFrame.asks = << >> THEN Num(0) ELSE lowest(lastFrame.asks)


----------------------------------------------------------------------------
\* Specifications

\* the aggregator process after start-up: an empty inserter and both sessions
\* connecting; no scenario request is being served
AggInit == BWInit /\ ScIdle /\ SessInit /\ DirIdle /\ HunterIdle /\ ClassifierIdle /\ QuotesInit

\* a scenario request has arrived
ScenarioInit == BWInit /\ ScInit /\ SessInit /\ DirIdle /\ HunterIdle /\ ClassifierIdle /\ QuotesInit

\* propagateDirection is about to be applied
DirectionInit == BWInit /\ ScIdle /\ SessInit /\ DirInit /\ HunterIdle /\ ClassifierIdle /\ QuotesInit

\* the batch writer on its own, records carrying unique ids
BWNext ==
  \/ Enqueue /\ UNCHANGED <<scVars, sessVars, dirCall, hVars, cVars, qVars>>
  \/ TimerFlush /\ UNCHANGED <<scVars, sessVars, dirCall, hVars, cVars, qVars>>
  \/ InsertDone /\ UNCHANGED <<scVars, sessVars, dirCall, hVars, cVars, qVars>>
  \/ shutdown /\ UNCHANGED <<scVars, sessVars, dirCall, hVars, cVars, qVars>>

SpecBW == AggInit /\ [][BWNext]_vars

\* the batch writer running under load, records not told apart
BWLoadNext ==
  \/ EnqueueAnon /\ UNCHANGED <<scVars, sessVars, dirCall, hVars, cVars, qVars>>
  \/ TimerFlush /\ UNCHANGED <<scVars, sessVars, dirCall, hVars, cVars, qVars>>
  \/ InsertDone /\ UNCHANGED <<scVars, sessVars, dirCall, hVars, cVars, qVars>>

SpecBWLoad == AggInit /\ [][BWLoadNext]_vars

\* the aggregator process: both sessions, the shared inserter, shutdown
AggNext ==
  \/ (\E v \in Venues : Open(v)) /\ UNCHANGED <<bwVars, scVars, dirCall, hVars, cVars, qVars>>
  \/ (\E v \in Venues : Close(v)) /\ UNCHANGED <<bwVars, scVars, dirCall, hVars, cVars, qVars>>
  \/ (\E v \in Venues : Wake(v)) /\ UNCHANGED <<bwVars, scVars, dirCall, hVars, cVars, qVars>>
  \/ (\E v \in Venues, kind \in FrameKinds : OnMessage(v, kind)) /\ UNCHANGED <<scVars, dirCall, hVars, cVars, qVars>>
  \/ TimerFlush /\ UNCHANGED <<scVars, sessVars, dirCall, hVars, cVars, qVars>>
  \/ InsertDone /\ UNCHANGED <<scVars, sessVars, dirCall, hVars, cVars, qVars>>
  \/ shutdown /\ UNCHANGED <<scVars, sessVars, dirCall, hVars, cVars, qVars>>

SpecAggregator == AggInit /\ [][AggNext]_vars

\* one scenario request, served by either handler
ScNext ==
  \/ BackendReceive /\ UNCHANGED <<bwVars, sessVars, dirCall, hVars, cVars, qVars>>
  \/ (\E o \in StoreOutcomes : BackendLoad(o)) /\ UNCHANGED <<bwVars, sessVars, dirCall, hVars, cVars, qVars>>
  \/ (\E o \in AnalystOutcomes, t \in Markets \cup {UNKNOWN}, d \in Directions :
        BackendParse(o, t, d)) /\ UNCHANGED <<bwVars, sessVars, dirCall, hVars, cVars, qVars>>
  \/ BfsStep /\ UNCHANGED <<bwVars, sessVars, dirCall, hVars, cVars, qVars>>
  \/ BfsReturn /\ UNCHANGED <<bwVars, sessVars, dirCall, hVars, cVars, qVars>>
  \/ (\E o \in AnalystOutcomes : BackendNarrate(o)) /\ UNCHANGED <<bwVars, sessVars, dirCall, hVars, cVars, qVars>>
  \/ (\E o \in StoreOutcomes : BackendSave(o)) /\ UNCHANGED <<bwVars, sessVars, dirCall, hVars, cVars, qVars>>
  \/ EdgeReceive /\ UNCHANGED <<bwVars, sessVars, dirCall, hVars, cVars, qVars>>
  \/ (\E o \in StoreOutcomes : EdgeInsert(o)) /\ UNCHANGED <<bwVars, sessVars, dirCall, hVars, cVars, qVars>>
  \/ (\E o \in StoreOutcomes : EdgeGraph(o)) /\ UNCHANGED <<bwVars, sessVars, dirCall, hVars, cVars, qVars>>
  \/ (\E o \in AnalystOutcomes : EdgeAnalyst(o)) /\ UNCHANGED <<bwVars, sessVars, dirCall, hVars, cVars, qVars>>
  \/ (\E o \in StoreOutcomes : EdgeUpdate(o)) /\ UNCHANGED <<bwVars, sessVars, dirCall, hVars, cVars, qVars>>
  \/ EdgeRespond /\ UNCHANGED <<bwVars, sessVars, dirCall, hVars, cVars, qVars>>

SpecScenario == ScenarioInit /\ [][ScNext]_vars

\* propagateDirection over all its arguments
DirNext ==
  \/ PropagateOnce /\ UNCHANGED <<bwVars, scVars, sessVars, hVars, cVars, qVars>>
  \/ PropagateTwice /\ UNCHANGED <<bwVars, scVars, sessVars, hVars, cVars, qVars>>

SpecDirection == DirectionInit /\ [][DirNext]_vars

\* the arbitrage scanner
HunterNext ==
  \/ (\E po \in StoreOutcomes, mo \in StoreOutcomes, so \in StoreOutcomes :
        ScanStart(po, mo, so)) /\ UNCHANGED <<bwVars, scVars, sessVars, dirCall, cVars, qVars>>
  \/ (\E o \in StoreOutcomes : ScanPair(o)) /\ UNCHANGED <<bwVars, scVars, sessVars, dirCall, cVars, qVars>>
  \/ ScanEnd /\ UNCHANGED <<bwVars, scVars, sessVars, dirCall, cVars, qVars>>

HunterStart == BWInit /\ ScIdle /\ SessInit /\ DirIdle /\ HunterInit /\ ClassifierIdle /\ QuotesInit

SpecHunter == HunterStart /\ [][HunterNext]_vars

\* the classifier, run some times over one catalog
ClassifierNext ==
  \/ (\E m \in fetchMarkets(catalog), o \in StoreOutcomes : runAgentStart(m, o))
       /\ UNCHANGED <<bwVars, scVars, sessVars, dirCall, hVars, qVars>>
  \/ (\E i \in DOMAIN agentPairs, a \in {"ok", "error"},
          raw \in ClassifierResponses \cup {NoAnswer},
          t \in AnalystTypes \cup {"null"}, o \in StoreOutcomes : task(i, a, raw, t, o))
       /\ UNCHANGED <<bwVars, scVars, sessVars, dirCall, hVars, qVars>>
  \/ runAgentEnd /\ UNCHANGED <<bwVars, scVars, sessVars, dirCall, hVars, qVars>>

ClassifierStart == BWInit /\ ScIdle /\ SessInit /\ DirIdle /\ HunterIdle /\ ClassifierInit /\ QuotesInit

SpecClassifier == ClassifierStart /\ [][ClassifierNext]_vars

\* the message handlers of both sessions, as far as they build quotes
QuotesNext ==
  \/ (\E q \in RawQuotes, p \in RawPrices : PolymarketTrade("X", q[1], q[2], p, MISSING))
       /\ UNCHANGED <<scVars, sessVars, dirCall, hVars, cVars>>
  \/ (\E t \in BookTops, d \in DepthValues :
        PolymarketBook("X", ladderOf(t[1]), ladderOf(t[2]), d))
       /\ UNCHANGED <<scVars, sessVars, dirCall, hVars, cVars>>
  \/ (\E t \in RawTickers : KalshiTicker("X", t[1], t[2], MISSING, MISSING))
       /\ UNCHANGED <<scVars, sessVars, dirCall, hVars, cVars>>
  \/ (\E side \in TakerSides, yes \in RawPrices, no \in {MISSING, Num(350000)},
          count \in RawSizes : KalshiTrade("X", side, yes, no, count))
       /\ UNCHANGED <<scVars, sessVars, dirCall, hVars, cVars>>

QuotesStart ==
  BWInit /\ ScIdle /\ SessInit /\ DirIdle /\ HunterIdle /\ ClassifierIdle /\ QuotesInit

SpecQuotes == QuotesStart /\ [][QuotesNext]_vars

\* the message handlers of both sessions over two assets per venue, with
\* frames that are dropped
FeedNext ==
  \/ (\E a \in Assets, q \in {<<MISSING, MISSING>>, <<Num(6000), Num(7000)>>},
          p \in {MISSING, Num(6600)}, ts \in RawTimes :
        PolymarketTrade(a, q[1], q[2], p, ts))
       /\ UNCHANGED <<scVars, sessVars, dirCall, hVars, cVars>>
  \/ (\E a \in Assets \cup {NOASSET}, l \in BookLadders :
        PolymarketBook(a, l[1], l[2], Num(1000)))
       /\ UNCHANGED <<scVars, sessVars, dirCall, hVars, cVars>>
  \/ (\E a \in Assets, t \in {<<Num(380000), Num(420000)>>, <<Num(0), Num(650000)>>},
          ts \in RawTimes : KalshiTicker(a, t[1], t[2], Num(100000), ts))
       /\ UNCHANGED <<scVars, sessVars, dirCall, hVars, cVars>>
  \/ (\E a \in Assets, side \in {"yes", "number"}, yes \in {Num(ONE), Num(650000)} :
        KalshiTrade(a, side, yes, MISSING, Num(100000)))
       /\ UNCHANGED <<scVars, sessVars, dirCall, hVars, cVars>>
  \/ (\E v \in Venues : NonJsonFrame(v))
       /\ UNCHANGED <<scVars, sessVars, dirCall, hVars, cVars>>

FeedStart ==
  BWInit /\ ScIdle /\ SessInit /\ DirIdle /\ HunterIdle /\ ClassifierIdle /\ QuotesInit

SpecFeed == FeedStart /\ [][FeedNext]_vars

\* the two sessions on their own: no signal ends the process
ReconnectNext ==
  \/ (\E v \in Venues : Open(v)) /\ UNCHANGED <<bwVars, scVars, dirCall, hVars, cVars, qVars>>
  \/ (\E v \in Venues : Close(v)) /\ UNCHANGED <<bwVars, scVars, dirCall, hVars, cVars, qVars>>
  \/ (\E v \in Venues : Wake(v)) /\ UNCHANGED <<bwVars, scVars, dirCall, hVars, cVars, qVars>>
  \/ (\E v \in Venues, kind \in FrameKinds : OnMessage(v, kind))
       /\ UNCHANGED <<scVars, dirCall, hVars, cVars, qVars>>

\* the timer of sleep(delay) fires: a sleeping session is resumed
ReconnectFair ==
  \A v \in Venues :
    WF_vars(Wake(v) /\ UNCHANGED <<bwVars, scVars, dirCall, hVars, cVars, qVars>>)

SpecReconnect == AggInit /\ [][ReconnectNext]_vars /\ ReconnectFair

\* C26: whenever a venue's connection has closed (its session sleeps before
\* the next attempt), that session later starts a new connection attempt
C26_ReconnectsAfterClose ==
  \A v \in Venues : (conn[v] = "sleeping") ~> (conn[v] = "connecting")

\* a session starts a new attempt after two attempts in a row have failed
\* without opening
C26_Witness ==
  \E v \in Venues :
    /\ conn[v] = "connecting"
    /\ streak[v] >= 2
    /\ ~lastSleep[v].wasOpen

\* classifyPair on a parsed response
PairCallNext ==
  \/ classifyPairReturns /\ UNCHANGED <<bwVars, scVars, sessVars, dirCall, hVars, qVars>>

PairCallStart == BWInit /\ ScIdle /\ SessInit /\ DirIdle /\ HunterIdle /\ PairCallInit /\ QuotesInit

SpecPairCall == PairCallStart /\ [][PairCallNext]_vars

\* the latest quote per event id
LatestNext ==
  \/ ScanTable /\ UNCHANGED <<bwVars, scVars, sessVars, dirCall, hVars, qVars>>

LatestStart == BWInit /\ ScIdle /\ SessInit /\ DirIdle /\ HunterIdle /\ ScanInit /\ QuotesInit

SpecLatest == LatestStart /\ [][LatestNext]_vars

\* pLimit over its tasks
PoolNext ==
  \/ (\E w \in 1..MaxTasks : workerShift(w))
       /\ UNCHANGED <<bwVars, scVars, sessVars, dirCall, hVars, qVars>>
  \/ (\E w \in 1..MaxTasks, o \in {"resolved", "rejected"} : taskSettles(w, o))
       /\ UNCHANGED <<bwVars, scVars, sessVars, dirCall, hVars, qVars>>
  \/ (\E w \in 1..MaxTasks : workerReturn(w))
       /\ UNCHANGED <<bwVars, scVars, sessVars, dirCall, hVars, qVars>>

PoolStart == BWInit /\ ScIdle /\ SessInit /\ DirIdle /\ HunterIdle /\ PoolInit /\ QuotesInit

SpecPool == PoolStart /\ [][PoolNext]_vars

\* the price lookups applied to one catalog row
LookupNext ==
  \/ Resolve /\ UNCHANGED <<bwVars, scVars, sessVars, dirCall, hVars, qVars>>

LookupStart == BWInit /\ ScIdle /\ SessInit /\ DirIdle /\ HunterIdle /\ LookupInit /\ QuotesInit

SpecLookup == LookupStart /\ [][LookupNext]_vars

\* C1: after a shutdown, once no insert is outstanding, the bag of persisted
\* records equals the bag of enqueued records
C1_ShutdownPersistsAll ==
  (bwPc = "exited" /\ inflight = EmptyBag) => persisted = enqueued

\* C2: the retained queue never holds more than 10 * batchSize records
C2_QueueBounded == Len(queue) <= RETRY_CAP_FACTOR * batchSize

\* C17: a call of enqueue() that finds more than 10 * batchSize records in
\* the queue drops its record: the record is neither pushed nor sent
C17_DropAboveHighWater ==
  [][(Len(queue) > RETRY_CAP_FACTOR * batchSize /\ nextId' # nextId)
       => (queue' = queue /\ inflight' = inflight)]_vars

\* C18: at most one insert is in flight at any time
C18_OneInsertInFlight == BagCardinality(inflight) <= 1

\* C19: the flush timer is cancelled before the final flush begins and stays
\* cancelled, no record is enqueued once the final flush has begun, and no
\* insert is in flight when the process has exited
C19_ShutdownOrder ==
  /\ [](bwPc \in {"finalFlush", "exited"} => ~timerOn)
  /\ [](bwPc = "exited" => inflight = EmptyBag)
  /\ [][bwPc = "finalFlush" => enqueued' = enqueued]_vars

\* C24: an insert that settles without storing its batch (error result or
\* thrown exception) puts the batch back at the front of the queue, in its
\* order, ahead of whatever the queue holds by then
C24_FailedBatchRequeuedInFront ==
  [][(BagCardinality(inflight') < BagCardinality(inflight) /\ persisted' = persisted)
       => \E batch \in BagToSet(inflight) :
            /\ inflight' = inflight (-) SetToBag({batch})
            /\ queue' = batch \o queue]_vars

CatalogPairs ==
  {{r1.market_key, r2.market_key} : r1 \in catalog, r2 \in catalog} \ {{r.market_key} : r \in catalog}

\* every task has ended, and the tasks are the unordered pairs of distinct
\* catalog markets, each listed once
EveryPairOnce ==
  /\ agentFinished = DOMAIN agentPairs
  /\ {{agentPairs[i][1], agentPairs[i][2]} : i \in DOMAIN agentPairs} = CatalogPairs
  /\ Len(agentPairs) = Cardinality(CatalogPairs)

\* the step is the task of pair i
TaskEnds(i) == i \notin agentFinished /\ i \in agentFinished'

\* a row of another pair than pair i
OtherThan(i, r) ==
  {r.market_key_a, r.market_key_b} # {agentPairs[i][1], agentPairs[i][2]}

\* the task of a pair leaves the rows and the stored keys of the other pairs
\* as they are, and a skipped pair stores nothing
TaskIsolated ==
  \A i \in DOMAIN agentPairs :
    TaskEnds(i) =>
      /\ {r \in relTable' : OtherThan(i, r)} = {r \in relTable : OtherThan(i, r)}
      /\ thisRun \subseteq thisRun'
      /\ lastTask'.skipped => (relTable' = relTable /\ thisRun' = thisRun)

C39_CommandIdsIncrease ==
  \A i \in DOMAIN sentIds, j \in DOMAIN sentIds :
    i < j => sentIds[i] < sentIds[j]

\* the venue-B session subscribed again after a reconnection
C39_Witness ==
  /\ Len(sentIds) = 4
  /\ conn["kalshi"] = "open"
  /\ lastSleep["kalshi"].wasOpen

\* C40: every quote the venue-B session hands to the inserter, trade or
\* ticker, has depth 0, a confidence score that is a number below 50, and
\* the low-confidence flag
C40_VenueBLowConfidence ==
  (lastQuote # NoQuote /\ lastQuote.platform = "kalshi") =>
    /\ lastQuote.liquidity_depth_usd = Num(0)
    /\ lastQuote.liquidity_score.k = "num"
    /\ lastQuote.liquidity_score.v < 50
    /\ lastQuote.confidence_flag = "LOW_CONFIDENCE"

\* a row of the relationship table joins x and y
Joined(x, y) ==
  \E k \in DOMAIN relationships :
    {relationships[k].market_key_a, relationships[k].market_key_b} = {x, y}

\* the number of edges on a shortest path from x to y, for paths of at most
\* MAX_DEPTH edges; MAX_DEPTH + 1 stands for any longer distance
ShortestPath(x, y) ==
  IF x = y THEN 0
  ELSE IF Joined(x, y) THEN 1
  ELSE IF \E z \in Markets : Joined(x, z) /\ Joined(z, y) THEN 2
  ELSE MAX_DEPTH + 1

\* C34: the order of every impact is the number of edges on a shortest path
\* from the origin to its market; a market joined to the origin by a row is
\* never reported with order 2
C34_OrderIsShortestPath ==
  \A i \in DOMAIN impacts :
    /\ impacts[i].order = ShortestPath(target, impacts[i].market_key)
    /\ Joined(target, impacts[i].market_key) => impacts[i].order = 1

\* two markets that a row joins to each other are both joined to the origin,
\* and both are reported as first-order
C34_Witness ==
  /\ Traversed
  /\ \E i \in DOMAIN impacts, j \in DOMAIN impacts :
       /\ i # j
       /\ impacts[i].order = 1 /\ impacts[j].order = 1
       /\ Joined(impacts[i].market_key, impacts[j].market_key)

\* the row of the relationship table that joins x and y
rowJoining(x, y) ==
  relationships[CHOOSE k \in DOMAIN relationships :
                  {relationships[k].market_key_a, relationships[k].market_key_b} = {x, y}]

\* C35: every affected_edges entry of a saved report carries the
\* relationship type and the confidence of the row that joins its source and
\* its target
C35_EdgeCarriesItsOwnRow ==
  \A k \in SavedRows :
    \A n \in DOMAIN reports[k].affected_edges :
      LET e == reports[k].affected_edges[n]
      IN /\ Joined(e.source, e.target)
         /\ e.relationship_type = rowJoining(e.source, e.target).relationship_type
         /\ e.confidence_score = rowJoining(e.source, e.target).confidence_score

\* a saved report with a second-order impact whose two hops are rows of
\* different type and confidence, the second of confidence 1.0, so that the
\* impact ties with the first-order impact it was reached from
C35_Witness ==
  \E k \in SavedRows :
    \E i \in DOMAIN reports[k].causal_chain :
      LET imp == reports[k].causal_chain[i]
      IN /\ imp.order = 2
         /\ rowJoining(imp.path[1], imp.path[2]).relationship_type # imp.relationship_type
         /\ rowJoining(imp.path[1], imp.path[2]).confidence_score # imp.edge_confidence
         /\ imp.edge_confidence = 1000
         /\ Len(reports[k].affected_edges) = 2

\* the markets of the impacts
ImpactMarkets == {impacts[i].market_key : i \in DOMAIN impacts}

\* the markets that were reached and cut: visited, not the origin, no impact
CutMarkets == visited \ ({target} \cup ImpactMarkets)

\* a market joined to the origin by a row whose confidence is below the
\* threshold, joined to a first-order impact by a row that would carry it
\* at or above the threshold
CutButReachable(x) ==
  /\ Joined(target, x)
  /\ toFixed4(ORIGIN_CONF, rowJoining(target, x).confidence_score) < MIN_PATH_CONF
  /\ \E i \in DOMAIN impacts :
       /\ impacts[i].order = 1
       /\ Joined(impacts[i].market_key, x)
       /\ toFixed4(impacts[i].confidence_score,
                   rowJoining(impacts[i].market_key, x).confidence_score) >= MIN_PATH_CONF

C38_PathsAreSimpleWalks ==
  \A i \in DOMAIN impacts :
    LET imp == impacts[i]
    IN /\ imp.path[1] = target
       /\ imp.path[Len(imp.path)] = imp.market_key
       /\ Len(imp.path) = imp.order + 1
       /\ NoDup(imp.path)
       /\ \A n \in 1..(Len(imp.path) - 1) : Joined(imp.path[n], imp.path[n + 1])
       /\ imp.market_key # target

\* the traversal is over with a second-order impact, reached over one
\* first-order impact, and another first-order impact
C38_Witness ==
  /\ Traversed
  /\ \E i \in DOMAIN impacts, j \in DOMAIN impacts :
       /\ impacts[i].order = 1
       /\ impacts[j].order = 2
       /\ Len(impacts[j].path) = 3
       /\ impacts[j].path[2] # impacts[i].market_key


====
